---- MODULE Spec2Model ----
(***************************************************************************)
(* Event-sourced personal ledger: the Postgres event store with its        *)
(* optimistic concurrency control (EventStoreRepo), the synchronous        *)
(* projector (Projector), the projection rebuild, the command              *)
(* deduplicator (CommandDedupRepo) and the Account aggregate.              *)
(*                                                                         *)
(* The database is modelled as Postgres runs it at its default isolation   *)
(* level (READ COMMITTED): every transaction keeps a private write set     *)
(* that becomes visible at COMMIT; an INSERT that meets an uncommitted     *)
(* row with the same unique key waits for the other transaction; a failed  *)
(* statement puts the transaction in the aborted state, where every later  *)
(* statement fails until ROLLBACK; sequence values are never given back.   *)
(***************************************************************************)
EXTENDS Integers, Sequences, FiniteSets, TLC

VARIABLES
  events,         \* committed rows of table events
  readAccounts,   \* committed rows of table read_accounts, by account_id
  readMovements,  \* committed rows of table read_movements
  nextSeq,        \* next value of the BIGSERIAL sequence behind event_seq
  calls,          \* append / appendMultiple calls made so far
  tx,             \* per client: the append/appendMultiple call it is running
  rebuilt,        \* the last projection rebuild: "no", "done" or "failed"
  commandDedup,   \* rows of table command_dedup
  dedupCall,      \* per caller: its beginCommand call
  account,        \* the Account aggregate (its AccountState)
  lastCommand,    \* the last operation applied to the aggregate and its outcome
  useCase,        \* per client: the use-case execution it serves
  executions,     \* use-case executions started so far
  clock,          \* the time new Date() returns
  written,        \* one client's appends, with their timestamps and movement ids
  replayedModel        \* the read model a rebuild of that log produces

storeVars == <<events, readAccounts, readMovements, nextSeq, calls, tx, rebuilt>>
dedupVars == <<commandDedup, dedupCall>>
aggVars == <<account, lastCommand>>
ucVars == <<useCase, executions>>
replayVars == <<clock, written, replayedModel>>
vars == <<events, readAccounts, readMovements, nextSeq, calls, tx, rebuilt,
          commandDedup, dedupCall, account, lastCommand, useCase, executions,
          clock, written, replayedModel>>

----------------------------------------------------------------------------
(* Bounds *)

MaxCalls == 2        \* append / appendMultiple calls in one behaviour
MaxDedupCalls == 3   \* concurrent beginCommand calls
MaxFold == 3         \* longest event sequence folded by fromEvents
MaxCommands == 3     \* command methods applied to one aggregate
MaxExecutions == 3   \* use-case executions in one behaviour

Clients == {1, 2}
Streams == {"A", "B"}
ExpectedVersions == {0 - 1, 0}

Max(S) == CHOOSE x \in S : \A y \in S : y <= x
Min(S) == CHOOSE x \in S : \A y \in S : x <= y

\* amountCents and Money.cents are JavaScript numbers, which need not be
\* integers.  They are kept in fixed point: the integer n stands for the
\* number n / 2, so a whole number of cents k is Cents(k) and an odd n is a
\* number that is not an integer.  Sums, differences and comparisons with 0
\* are those of the numbers.
Cents(k) == 2 * k

----------------------------------------------------------------------------
(* Domain events (events.ts).  Every payload carries all fields so that    *)
(* payloads of different types compare; a field a type does not have holds *)
(* the neutral value.                                                      *)

USD == <<"U", "S", "D">>
EUR == <<"E", "U", "R">>
NoCurrency == <<>>
NoTransfer == "none"

AccountCreated(cur, neg) ==
  [type |-> "AccountCreated", amountCents |-> 0, transferId |-> NoTransfer,
   currency |-> cur, allowNegative |-> neg]
IncomeRecorded(amt) ==
  [type |-> "IncomeRecorded", amountCents |-> amt, transferId |-> NoTransfer,
   currency |-> NoCurrency, allowNegative |-> FALSE]
ExpenseRecorded(amt) ==
  [type |-> "ExpenseRecorded", amountCents |-> amt, transferId |-> NoTransfer,
   currency |-> NoCurrency, allowNegative |-> FALSE]
TransferSent(tid, amt) ==
  [type |-> "TransferSent", amountCents |-> amt, transferId |-> tid,
   currency |-> NoCurrency, allowNegative |-> FALSE]
TransferReceived_Doubled(tid, amt) ==
  [type |-> "TransferReceived", amountCents |-> 2 * amt, transferId |-> tid,
   currency |-> NoCurrency, allowNegative |-> FALSE]
TransferReceived(tid, amt) ==
  [type |-> "TransferReceived", amountCents |-> amt, transferId |-> tid,
   currency |-> NoCurrency, allowNegative |-> FALSE]
AccountArchived ==
  [type |-> "AccountArchived", amountCents |-> 0, transferId |-> NoTransfer,
   currency |-> NoCurrency, allowNegative |-> FALSE]

FinancialTypes ==
  {"IncomeRecorded", "ExpenseRecorded", "TransferSent", "TransferReceived"}

\* The signed amount of an event: income +, expense -, transfer out -,
\* transfer in +, creation and archival 0.
SignedAmount(ev) ==
  CASE ev.type \in {"IncomeRecorded", "TransferReceived"} -> ev.amountCents
    [] ev.type \in {"ExpenseRecorded", "TransferSent"} -> 0 - ev.amountCents
    [] OTHER -> 0

----------------------------------------------------------------------------
(* Projector (projector.ts).  accs maps account_id to its read_accounts    *)
(* row or NoRow, movs is the set of read_movements rows.                   *)

NoRow ==
  [exists |-> FALSE, currency |-> NoCurrency, allowNegative |-> FALSE,
   balanceCents |-> 0, lastVersion |-> 0]

AccountRow(cur, neg, bal, lv) ==
  [exists |-> TRUE, currency |-> cur, allowNegative |-> neg,
   balanceCents |-> bal, lastVersion |-> lv]

MovementRow(ctx, kind, ev) ==
  [accountId |-> ctx.aggregateId, kind |-> kind, amountCents |-> ev.amountCents,
   transferId |-> ev.transferId, eventId |-> ctx.eventId, eventSeq |-> ctx.eventSeq]

\* INSERT ... ON CONFLICT (account_id) DO UPDATE: a new row starts at balance
\* 0, an existing row keeps its balance.
projectAccountCreated(accs, movs, ev, ctx) ==
  LET old == accs[ctx.aggregateId] IN
  [accounts |->
     [accs EXCEPT ![ctx.aggregateId] =
        IF old = NoRow
        THEN AccountRow(ev.currency, ev.allowNegative, 0, ctx.eventSeq)
        ELSE AccountRow(ev.currency, ev.allowNegative, old.balanceCents,
                        Max({old.lastVersion, ctx.eventSeq}))],
   movements |-> movs]

\* UPDATE read_accounts ... WHERE account_id = $4 touches no row when the
\* account has none; the INSERT into read_movements runs either way.
UpdateBalance(accs, ctx, delta) ==
  LET old == accs[ctx.aggregateId] IN
  IF old = NoRow THEN accs
  ELSE [accs EXCEPT ![ctx.aggregateId] =
          [old EXCEPT !.balanceCents = @ + delta, !.lastVersion = ctx.eventSeq]]

projectIncomeRecorded(accs, movs, ev, ctx) ==
  [accounts |-> UpdateBalance(accs, ctx, ev.amountCents),
   movements |-> movs \cup {MovementRow(ctx, "income", ev)}]

ExpenseDelta_Added(ev) == ev.amountCents
ExpenseDelta(ev) == 0 - ev.amountCents

projectExpenseRecorded(accs, movs, ev, ctx) ==
  [accounts |-> UpdateBalance(accs, ctx, ExpenseDelta(ev)),
   movements |-> movs \cup {MovementRow(ctx, "expense", ev)}]

projectTransferSent(accs, movs, ev, ctx) ==
  [accounts |-> UpdateBalance(accs, ctx, 0 - ev.amountCents),
   movements |-> movs \cup {MovementRow(ctx, "transfer_out", ev)}]

projectTransferReceived_Out(accs, movs, ev, ctx) ==
  [accounts |-> UpdateBalance(accs, ctx, ev.amountCents),
   movements |-> movs \cup {MovementRow(ctx, "transfer_out", ev)}]
projectTransferReceived(accs, movs, ev, ctx) ==
  [accounts |-> UpdateBalance(accs, ctx, ev.amountCents),
   movements |-> movs \cup {MovementRow(ctx, "transfer_in", ev)}]

projectAccountArchived_Untouched(accs, movs, ev, ctx) ==
  [accounts |-> accs, movements |-> movs]
projectAccountArchived(accs, movs, ev, ctx) ==
  [accounts |-> UpdateBalance(accs, ctx, 0), movements |-> movs]

project(accs, movs, ev, ctx) ==
  CASE ev.type = "AccountCreated" -> projectAccountCreated(accs, movs, ev, ctx)
    [] ev.type = "IncomeRecorded" -> projectIncomeRecorded(accs, movs, ev, ctx)
    [] ev.type = "ExpenseRecorded" -> projectExpenseRecorded(accs, movs, ev, ctx)
    [] ev.type = "TransferSent" -> projectTransferSent(accs, movs, ev, ctx)
    [] ev.type = "TransferReceived" -> projectTransferReceived(accs, movs, ev, ctx)
    [] ev.type = "AccountArchived" -> projectAccountArchived(accs, movs, ev, ctx)

\* The signed amount of a movement row, by its kind.
MovementSigned(m) ==
  IF m.kind \in {"income", "transfer_in"} THEN m.amountCents ELSE 0 - m.amountCents

RECURSIVE MovementTotal(_)
MovementTotal(S) ==
  IF S = {} THEN 0
  ELSE LET m == CHOOSE x \in S : TRUE IN MovementSigned(m) + MovementTotal(S \ {m})

MovementSum(movs, a) == MovementTotal({m \in movs : m.accountId = a})

----------------------------------------------------------------------------
(* EventStoreRepo (eventStoreRepo.ts) over Postgres.                       *)

\* An event row.  event_id is a fresh UUID per insert; the model takes the
\* sequence value of the insert as that fresh identity.  Of the metadata
\* column the row keeps the correlationId.
EventRow(seq, agg, ver, ev, corr) ==
  [eventSeq |-> seq, eventId |-> seq, aggregateId |-> agg, version |-> ver,
   payload |-> ev, correlationId |-> corr]

\* SELECT COALESCE(MAX(version), -1) FROM events WHERE aggregate_id = agg
StreamVersion(rows, agg) ==
  LET vs == {e.version : e \in {x \in rows : x.aggregateId = agg}} IN
  IF vs = {} THEN 0 - 1 ELSE Max(vs)

getStreamVersion(agg) == StreamVersion(events, agg)

getStreamVersionWithClient_CommittedOnly(t, agg) == StreamVersion(events, agg)
\* Inside a transaction a statement sees the committed rows and the rows
\* the transaction itself has written.
getStreamVersionWithClient(t, agg) == StreamVersion(events \cup t.wEvents, agg)

RECURSIVE SortByVersion(_)
SortByVersion(rows) ==
  IF rows = {} THEN <<>>
  ELSE LET e == CHOOSE x \in rows : \A y \in rows : x.version <= y.version
       IN <<e>> \o SortByVersion(rows \ {e})

\* SELECT ... WHERE aggregate_id = agg ORDER BY version ASC
loadStream(agg) == SortByVersion({e \in events : e.aggregateId = agg})

NoResult == [status |-> "none", expectedVersion |-> 0, actualVersion |-> 0, code |-> "none"]
Ok == [status |-> "ok", expectedVersion |-> 0, actualVersion |-> 0, code |-> "none"]
ConcurrencyError_Swapped(expected, actual) ==
  [status |-> "ConcurrencyError", expectedVersion |-> actual,
   actualVersion |-> expected, code |-> "none"]
ConcurrencyError(expected, actual) ==
  [status |-> "ConcurrencyError", expectedVersion |-> expected,
   actualVersion |-> actual, code |-> "none"]
\* An error of the pg driver, with its SQLSTATE.
DatabaseError(code) ==
  [status |-> "DatabaseError", expectedVersion |-> 0, actualVersion |-> 0, code |-> code]

NoWrites == [s \in Streams |-> NoRow]

IdleTx ==
  [pc |-> "idle", kind |-> "append", appends |-> <<>>, ri |-> 0, ei |-> 0,
   wEvents |-> {}, wAccounts |-> NoWrites, wMovements |-> {},
   result |-> NoResult]

Active(t) == t.pc \in {"check", "insert", "commit"}

\* The read_accounts rows a transaction sees: its own writes over the
\* committed rows.
AccountsView(t) ==
  [s \in Streams |-> IF t.wAccounts[s] # NoRow THEN t.wAccounts[s] ELSE readAccounts[s]]

\* What COMMIT makes visible, and what ROLLBACK leaves.
Committed_EventsOnly(t) ==
  [events |-> events \cup t.wEvents, accounts |-> readAccounts,
   movements |-> readMovements]
Committed(t) ==
  [events |-> events \cup t.wEvents,
   accounts |-> AccountsView(t),
   movements |-> readMovements \cup t.wMovements]

RolledBack_Partial(t) ==
  [events |-> events \cup t.wEvents, accounts |-> readAccounts,
   movements |-> readMovements]
RolledBack(t) ==
  [events |-> events, accounts |-> readAccounts, movements |-> readMovements]

TotalEvents(appends) ==
  LET n[i \in 0 .. Len(appends)] ==
        IF i = 0 THEN 0 ELSE n[i - 1] + Len(appends[i].events)
  IN n[Len(appends)]

NextRequest_EveryRequest(appends, i) == IF i <= Len(appends) THEN i ELSE 0
\* appendWithClient returns [] for a request without events, before any
\* version check; the next request that does something is the first one at
\* or after i that has events (0 when there is none).
NextRequest(appends, i) ==
  LET js == {j \in i .. Len(appends) : Len(appends[j].events) > 0} IN
  IF js = {} THEN 0 ELSE Min(js)

\* append / appendMultiple is called with its arguments; ri is the first
\* request that has events (0: the call has nothing to write).
Begin(c, kind, appends) ==
  /\ tx[c].pc \in {"idle", "done"}
  /\ calls' = calls + 1
  /\ tx' = [tx EXCEPT ![c] =
              [IdleTx EXCEPT !.pc = "check", !.kind = kind, !.appends = appends,
                             !.ri = NextRequest(appends, 1), !.ei = 1]]
  /\ rebuilt' = "no"
  /\ UNCHANGED <<events, readAccounts, readMovements, nextSeq>>

\* A call made directly on the event store; the pool hands out its lowest
\* idle client.
Call(c, kind, appends) ==
  /\ \A d \in Clients : d < c => Active(tx[d])
  /\ calls < MaxCalls
  /\ Begin(c, kind, appends)
  /\ UNCHANGED <<dedupVars, aggVars, replayVars, ucVars>>

\* The call returns: the client is released, the caller holds the result.
Returned(res) == [IdleTx EXCEPT !.pc = "done", !.result = res]

\* The catch block of append / appendMultiple: ROLLBACK, release the client,
\* rethrow.
Fail(c, err) ==
  LET after == RolledBack(tx[c]) IN
  /\ events' = after.events
  /\ readAccounts' = after.accounts
  /\ readMovements' = after.movements
  /\ tx' = [tx EXCEPT ![c] = Returned(err)]

VersionMatches_Always(currentVersion, expectedVersion) == TRUE
VersionMatches(currentVersion, expectedVersion) == currentVersion = expectedVersion

\* append / appendMultiple without any event to write: every request returns
\* [] before its version check, and the call returns normally.
ReturnEmpty(c) ==
  /\ tx[c].pc = "check"
  /\ tx[c].ri = 0
  /\ tx' = [tx EXCEPT ![c] = Returned(Ok)]
  /\ UNCHANGED <<events, readAccounts, readMovements, nextSeq, calls, rebuilt>>
  /\ UNCHANGED <<dedupVars, aggVars, replayVars, ucVars>>

\* appendWithClient, the version check inside the transaction.
CheckVersion(c) ==
  LET t == tx[c]
      req == t.appends[t.ri]
      currentVersion == getStreamVersionWithClient(t, req.aggregateId)
  IN
  /\ t.pc = "check"
  /\ t.ri > 0
  /\ IF VersionMatches(currentVersion, req.expectedVersion)
     THEN /\ tx' = [tx EXCEPT ![c] = [@ EXCEPT !.pc = "insert", !.ei = 1]]
          /\ UNCHANGED <<events, readAccounts, readMovements>>
     ELSE Fail(c, ConcurrencyError(req.expectedVersion, currentVersion))
  /\ UNCHANGED <<nextSeq, calls, rebuilt>>
  /\ UNCHANGED <<dedupVars, aggVars, replayVars, ucVars>>

\* UNIQUE(aggregate_type, aggregate_id, version): the rows that hold the key.
HoldsKey(rows, agg, ver) == \E e \in rows : e.aggregateId = agg /\ e.version = ver

UniqueViolation_None(t, agg, ver) == FALSE
UniqueViolation(t, agg, ver) == HoldsKey(events \cup t.wEvents, agg, ver)

\* let nextVersion = expectedVersion + 1; ... nextVersion++: the version
\* appendWithClient gives the i-th event of its batch.
nextVersion_Skip(expectedVersion, i) == expectedVersion + 1 + i
nextVersion(expectedVersion, i) == expectedVersion + i

\* The client whose uncommitted row makes c's INSERT wait.
WaitsFor(c, d) ==
  /\ d # c
  /\ tx[c].pc = "insert"
  /\ LET t == tx[c]
         req == t.appends[t.ri]
     IN HoldsKey(tx[d].wEvents, req.aggregateId,
                 nextVersion(req.expectedVersion, t.ei))

Blocked(c) == \E d \in Clients : WaitsFor(c, d)

\* The handler of SQLSTATE 23505 runs getStreamVersionWithClient on the same
\* client.  The failed INSERT has put the transaction in the aborted state,
\* so that query is rejected with SQLSTATE 25P02 and this error leaves the
\* handler; only a query that ran would let it throw ConcurrencyError.
HandleUniqueViolation(t, req, aborted) ==
  IF aborted THEN DatabaseError("25P02")
  ELSE ConcurrencyError(req.expectedVersion,
                        getStreamVersionWithClient(t, req.aggregateId))

\* event_seq BIGSERIAL: every INSERT takes the next value of the sequence,
\* whether or not the row stays.
nextval_Stuck(seq) == seq
nextval(seq) == seq + 1

\* appendWithClient, one turn of the loop: insertEvent, then project.
InsertEvent(c) ==
  LET t == tx[c]
      req == t.appends[t.ri]
      ev == req.events[t.ei]
      version == nextVersion(req.expectedVersion, t.ei)
      eventSeq == nextSeq
      ctx == [eventSeq |-> eventSeq, eventId |-> eventSeq,
              aggregateId |-> req.aggregateId]
      row == EventRow(eventSeq, req.aggregateId, version, ev, req.correlationId)
      proj == project(AccountsView(t), t.wMovements, ev, ctx)
      more == t.ei < Len(req.events)
      next == NextRequest(t.appends, t.ri + 1)
  IN
  /\ t.pc = "insert"
  /\ ~Blocked(c)
  /\ nextSeq' = nextval(nextSeq)
  /\ IF UniqueViolation(t, req.aggregateId, version)
     THEN Fail(c, HandleUniqueViolation(t, req, TRUE))
     ELSE /\ tx' = [tx EXCEPT ![c] =
                 [@ EXCEPT !.wEvents = @ \cup {row},
                           !.wAccounts = [@ EXCEPT ![req.aggregateId] =
                                            proj.accounts[req.aggregateId]],
                           !.wMovements = proj.movements,
                           !.ei = IF more THEN t.ei + 1 ELSE 1,
                           !.ri = IF more THEN t.ri ELSE next,
                           !.pc = IF more THEN "insert"
                                  ELSE IF next = 0 THEN "commit" ELSE "check"]]
          /\ UNCHANGED <<events, readAccounts, readMovements>>
  /\ UNCHANGED <<calls, rebuilt>>
  /\ UNCHANGED <<dedupVars, aggVars, replayVars, ucVars>>

\* COMMIT
Commit(c) ==
  LET after == Committed(tx[c]) IN
  /\ tx[c].pc = "commit"
  /\ events' = after.events
  /\ readAccounts' = after.accounts
  /\ readMovements' = after.movements
  /\ tx' = [tx EXCEPT ![c] = Returned(Ok)]
  /\ UNCHANGED <<nextSeq, calls, rebuilt>>
  /\ UNCHANGED <<dedupVars, aggVars, replayVars, ucVars>>

\* Two transactions that each wait for a key the other holds: Postgres
\* detects the deadlock and fails the INSERT of one of them (SQLSTATE 40P01),
\* whichever deadlock timer fires first.
DeadlockAbort(c) ==
  /\ \E d \in Clients : WaitsFor(c, d) /\ WaitsFor(d, c)
  /\ Fail(c, DatabaseError("40P01"))
  /\ UNCHANGED <<nextSeq, calls, rebuilt>>
  /\ UNCHANGED <<dedupVars, aggVars, replayVars, ucVars>>

----------------------------------------------------------------------------
(* Projection rebuild: TRUNCATE both projection tables, then replay every   *)
(* committed event through the projector, ORDER BY event_seq ASC, in one    *)
(* transaction.                                                             *)

RECURSIVE ReplayOrder_Desc(_)
ReplayOrder_Desc(rows) ==
  IF rows = {} THEN <<>>
  ELSE LET e == CHOOSE x \in rows : \A y \in rows : x.eventSeq >= y.eventSeq
       IN <<e>> \o ReplayOrder_Desc(rows \ {e})

RECURSIVE ReplayOrder(_)
ReplayOrder(rows) ==
  IF rows = {} THEN <<>>
  ELSE LET e == CHOOSE x \in rows : \A y \in rows : x.eventSeq <= y.eventSeq
       IN <<e>> \o ReplayOrder(rows \ {e})

\* The payload and the context are read back from the event row; amounts
\* are integers, which the JSONB column returns unchanged.
rebuildProjections(rows) ==
  LET es == ReplayOrder(rows)
      st[i \in 0 .. Len(es)] ==
        IF i = 0 THEN [accounts |-> [s \in Streams |-> NoRow], movements |-> {}]
        ELSE project(st[i - 1].accounts, st[i - 1].movements, es[i].payload,
                     [eventSeq |-> es[i].eventSeq, eventId |-> es[i].eventId,
                      aggregateId |-> es[i].aggregateId])
  IN st[Len(es)]

\* The rebuild is not run while writes are happening.
Rebuild ==
  LET after == rebuildProjections(events) IN
  /\ \A c \in Clients : ~Active(tx[c])
  /\ rebuilt = "no"
  /\ rebuilt' = "done"
  /\ readAccounts' = after.accounts
  /\ readMovements' = after.movements
  /\ UNCHANGED <<events, nextSeq, calls, tx>>
  /\ UNCHANGED <<dedupVars, aggVars, replayVars, ucVars>>

\* catch (error) { ROLLBACK }: what the tables hold after a rebuild in which
\* project threw for the i-th event of the replay.  The truncation and the
\* rows of the events before the i-th are undone with the transaction.
RebuildRolledBack_Partial(i) ==
  LET es == ReplayOrder(events)
      partial == rebuildProjections({es[j] : j \in 1 .. i - 1})
  IN [accounts |-> partial.accounts, movements |-> partial.movements]
RebuildRolledBack(i) ==
  [accounts |-> readAccounts, movements |-> readMovements]

\* A rebuild in which a statement of the projector fails for the i-th event
\* (a constraint of the read tables, a lost connection).
RebuildFails ==
  \E i \in 1 .. Cardinality(events) :
    LET after == RebuildRolledBack(i) IN
    /\ \A c \in Clients : ~Active(tx[c])
    /\ rebuilt = "no"
    /\ rebuilt' = "failed"
    /\ readAccounts' = after.accounts
    /\ readMovements' = after.movements
    /\ UNCHANGED <<events, nextSeq, calls, tx>>
    /\ UNCHANGED <<dedupVars, aggVars, replayVars, ucVars>>

----------------------------------------------------------------------------
(* The calls made on the event store. *)

AppendBatches ==
  {<<>>, <<AccountCreated(USD, FALSE)>>, <<IncomeRecorded(Cents(2))>>, <<AccountArchived>>,
   <<AccountCreated(USD, FALSE), IncomeRecorded(Cents(2))>>,
   <<IncomeRecorded(Cents(2)), ExpenseRecorded(Cents(1))>>,
   <<IncomeRecorded(Cents(2)), AccountCreated(USD, FALSE)>>}

\* The event store is called here with one fixed metadata value.
Request(agg, evs, expected) ==
  [aggregateId |-> agg, events |-> evs, expectedVersion |-> expected,
   correlationId |-> 0]

AppendRequests ==
  {Request(s, b, v) : s \in Streams, b \in AppendBatches, v \in ExpectedVersions}

\* appendMultiple as the transfer use-case calls it (one TransferSent and one
\* TransferReceived request), with a first request that may have no events,
\* and with no request at all.
MultiAppends ==
  {<<>>}
  \cup {<<Request(s1, <<TransferSent("t1", Cents(1))>>, v1),
          Request(s2, <<TransferReceived("t1", Cents(1))>>, v2)>> :
          s1 \in Streams, s2 \in Streams,
          v1 \in ExpectedVersions, v2 \in ExpectedVersions}
  \cup {<<Request("A", <<>>, 0), Request("B", <<TransferReceived("t1", Cents(1))>>, v2)>> :
          v2 \in ExpectedVersions}

append(c, req) == Call(c, "append", <<req>>)
appendMultiple(c, appends) == Call(c, "appendMultiple", appends)

----------------------------------------------------------------------------
(* CommandDedupRepo (commandDedupRepo.ts). *)

DedupCallers == 1 .. MaxDedupCalls
Users == {"u1", "u2"}
IdempotencyKeys == {"k1", "k2"}

NoDedupResult == [isDuplicate |-> FALSE, correlationId |-> 0]

IdleDedupCall ==
  [pc |-> "idle", userId |-> "u1", idempotencyKey |-> "k1", correlationId |-> 0,
   result |-> NoDedupResult]

DedupRow(u, k, corr) == [userId |-> u, idempotencyKey |-> k, correlationId |-> corr]

RowsOf(rows, u, k) == {r \in rows : r.userId = u /\ r.idempotencyKey = k}

\* INSERT ... ON CONFLICT (user_id, idempotency_key) DO UPDATE SET
\* correlation_id = command_dedup.correlation_id RETURNING correlation_id:
\* one statement; the row it returns is the stored one.
Upsert_KeyOnly(rows, u, k, corr) ==
  LET same == {r \in rows : r.idempotencyKey = k} IN
  IF same = {}
  THEN [rows |-> rows \cup {DedupRow(u, k, corr)}, returned |-> DedupRow(u, k, corr)]
  ELSE [rows |-> rows, returned |-> CHOOSE r \in same : TRUE]
Upsert_Overwrite(rows, u, k, corr) ==
  [rows |-> (rows \ RowsOf(rows, u, k)) \cup {DedupRow(u, k, corr)},
   returned |-> DedupRow(u, k, corr)]
Upsert(rows, u, k, corr) ==
  IF RowsOf(rows, u, k) = {}
  THEN [rows |-> rows \cup {DedupRow(u, k, corr)}, returned |-> DedupRow(u, k, corr)]
  ELSE [rows |-> rows, returned |-> CHOOSE r \in RowsOf(rows, u, k) : TRUE]

\* beginCommand is called and draws its correlationId (randomUUID: a value no
\* other call draws; the model takes the caller's number).
beginCommand(c, u, k) ==
  /\ dedupCall[c].pc = "idle"
  /\ dedupCall' = [dedupCall EXCEPT ![c] =
                     [IdleDedupCall EXCEPT !.pc = "called", !.userId = u,
                                           !.idempotencyKey = k, !.correlationId = c]]
  /\ UNCHANGED commandDedup
  /\ UNCHANGED <<storeVars, aggVars, replayVars, ucVars>>

\* The statement runs and beginCommand returns.
beginCommandReturn(c) ==
  LET d == dedupCall[c]
      up == Upsert(commandDedup, d.userId, d.idempotencyKey, d.correlationId)
  IN
  /\ d.pc = "called"
  /\ commandDedup' = up.rows
  /\ dedupCall' = [dedupCall EXCEPT ![c] =
                     [d EXCEPT !.pc = "done",
                               !.result = [isDuplicate |->
                                             up.returned.correlationId # d.correlationId,
                                           correlationId |-> up.returned.correlationId]]]
  /\ UNCHANGED <<storeVars, aggVars, replayVars, ucVars>>

\* SELECT correlation_id ... WHERE user_id = $1 AND idempotency_key = $2;
\* null (0) when there is no row.
getCorrelationId_AnyUser(u, k) ==
  LET rows == {r \in commandDedup : r.idempotencyKey = k} IN
  IF rows = {} THEN 0 ELSE (CHOOSE r \in rows : TRUE).correlationId
getCorrelationId(u, k) ==
  IF RowsOf(commandDedup, u, k) = {} THEN 0
  ELSE (CHOOSE r \in RowsOf(commandDedup, u, k) : TRUE).correlationId

----------------------------------------------------------------------------
(* Money (money.ts) and the Account aggregate (account.ts).  An operation   *)
(* that can throw yields [error, value]; error "none" is a normal return.   *)

Value(v) == [error |-> "none", value |-> v]
Throw(name) == [error |-> name, value |-> <<>>]

\* The private constructor validates the currency only.
Money(cents, currency) ==
  IF Len(currency) # 3 THEN Throw("InvalidCurrencyError")
  ELSE Value([cents |-> cents, currency |-> currency])

fromCents(cents, currency) ==
  IF cents < 0 THEN Throw("InvalidAmountError") ELSE Money(cents, currency)

fromBalanceCents(cents, currency) == Money(cents, currency)

zero(currency) == Money(0, currency)

add(this, other) ==
  IF this.currency # other.currency THEN Throw("InvalidCurrencyError")
  ELSE Money(this.cents + other.cents, this.currency)

subtract(this, other) ==
  IF this.currency # other.currency THEN Throw("InvalidCurrencyError")
  ELSE fromBalanceCents(this.cents - other.cents, this.currency)

NoMoney == [cents |-> 0, currency |-> NoCurrency]

NoAccount ==
  [exists |-> FALSE, currency |-> NoCurrency, allowNegative |-> FALSE,
   balance |-> NoMoney, version |-> 0, isArchived |-> FALSE]

AccountState(cur, neg, bal, ver, arch) ==
  [exists |-> TRUE, currency |-> cur, allowNegative |-> neg, balance |-> bal,
   version |-> ver, isArchived |-> arch]

\* Account.create
create(currency, allowNegative) ==
  LET z == zero(currency) IN
  IF z.error # "none" THEN Throw(z.error)
  ELSE Value(AccountState(currency, allowNegative, z.value, 0, FALSE))

\* The balance after a credit or a debit of the event's amount.
Credit(state, ev) ==
  LET m == fromCents(ev.amountCents, state.currency) IN
  IF m.error # "none" THEN m ELSE add(state.balance, m.value)

Debit(state, ev) ==
  LET m == fromCents(ev.amountCents, state.currency) IN
  IF m.error # "none" THEN m ELSE subtract(state.balance, m.value)

\* applyEvent: the handler of the event's type, then version + 1.
applyEvent(state, ev) ==
  LET bal == CASE ev.type = "AccountCreated" -> zero(ev.currency)
               [] ev.type \in {"IncomeRecorded", "TransferReceived"} -> Credit(state, ev)
               [] ev.type \in {"ExpenseRecorded", "TransferSent"} -> Debit(state, ev)
               [] OTHER -> Value(state.balance)
  IN
  IF bal.error # "none" THEN Throw(bal.error)
  ELSE Value(
    [state EXCEPT
       !.currency = IF ev.type = "AccountCreated" THEN ev.currency ELSE @,
       !.allowNegative = IF ev.type = "AccountCreated" THEN ev.allowNegative ELSE @,
       !.isArchived = IF ev.type = "AccountArchived" THEN TRUE ELSE @,
       !.balance = bal.value,
       !.version = @ + 1])

\* events.find((e) => e.type === 'AccountCreated'): the first creation event
\* at any position (0 when the sequence has none).
FindCreated(evs) ==
  LET is == {i \in 1 .. Len(evs) : evs[i].type = "AccountCreated"} IN
  IF is = {} THEN 0 ELSE Min(is)

\* Account.fromEvents
fromEvents(evs) ==
  IF Len(evs) = 0 THEN Throw("Error")
  ELSE IF FindCreated(evs) = 0 THEN Throw("Error")
  ELSE
    LET createdEvent == evs[FindCreated(evs)]
        z == zero(createdEvent.currency)
        st[i \in 0 .. Len(evs)] ==
          IF i = 0
          THEN IF z.error # "none" THEN Throw(z.error)
               ELSE Value(AccountState(createdEvent.currency,
                                       createdEvent.allowNegative, z.value, 0, FALSE))
          ELSE IF st[i - 1].error # "none" THEN st[i - 1]
               ELSE applyEvent(st[i - 1].value, evs[i])
    IN st[Len(evs)]

DebitAllowed_Positive(state, amountCents) ==
  state.allowNegative \/ state.balance.cents - amountCents > 0
\* The balance constraint of recordExpense and recordTransferSent.
DebitAllowed(state, amountCents) ==
  ~(~state.allowNegative /\ state.balance.cents - amountCents < 0)

Produce_Unfolded(state, ev) ==
  LET r == applyEvent(state, ev) IN
  IF r.error # "none" THEN Throw(r.error)
  ELSE Value([event |-> ev, state |-> state])
\* A command method: it validates, builds its event and applies it to the
\* aggregate; the result is the event and the state after it.
Produce(state, ev) ==
  LET r == applyEvent(state, ev) IN
  IF r.error # "none" THEN Throw(r.error)
  ELSE Value([event |-> ev, state |-> r.value])

recordIncome_OpenOnly(state, amountCents) ==
  IF amountCents <= 0 THEN Throw("InvalidAmountError")
  ELSE IF state.isArchived THEN Throw("Error")
  ELSE Produce(state, IncomeRecorded(amountCents))
recordIncome(state, amountCents) ==
  IF amountCents <= 0 THEN Throw("InvalidAmountError")
  ELSE Produce(state, IncomeRecorded(amountCents))

recordExpense(state, amountCents) ==
  IF amountCents <= 0 THEN Throw("InvalidAmountError")
  ELSE IF ~DebitAllowed(state, amountCents) THEN Throw("InsufficientBalanceError")
  ELSE Produce(state, ExpenseRecorded(amountCents))

recordTransferSent_Unchecked(state, transferId, amountCents) ==
  IF amountCents <= 0 THEN Throw("InvalidAmountError")
  ELSE Produce(state, TransferSent(transferId, amountCents))
recordTransferSent(state, transferId, amountCents) ==
  IF amountCents <= 0 THEN Throw("InvalidAmountError")
  ELSE IF ~DebitAllowed(state, amountCents) THEN Throw("InsufficientBalanceError")
  ELSE Produce(state, TransferSent(transferId, amountCents))

recordTransferReceived(state, transferId, amountCents) ==
  IF amountCents <= 0 THEN Throw("InvalidAmountError")
  ELSE Produce(state, TransferReceived(transferId, amountCents))

(* The aggregate driven on its own: built once by create or fromEvents,    *)
(* then given commands.  lastCommand keeps the operation, its arguments, the     *)
(* state it was applied to and the error it threw ("none": it returned).    *)

NoCommand ==
  [op |-> "none", amountCents |-> 0, events |-> <<>>, before |-> NoAccount,
   error |-> "none"]

FoldPayloads ==
  {AccountCreated(USD, FALSE), AccountCreated(EUR, TRUE), AccountCreated(<<"U", "S">>, TRUE),
   IncomeRecorded(Cents(2)), IncomeRecorded(Cents(0 - 1)), ExpenseRecorded(Cents(1)),
   TransferSent("t1", Cents(1)), TransferReceived("t1", Cents(3)), AccountArchived}

RECURSIVE SeqsUpTo(_, _)
SeqsUpTo(S, n) ==
  IF n = 0 THEN {<<>>}
  ELSE LET shorter == SeqsUpTo(S, n - 1) IN
       shorter \cup {Append(q, x) : q \in {r \in shorter : Len(r) = n - 1}, x \in S}

\* Whole amounts of -1, 0, 1 and 2 cents, and half a cent.
CommandAmounts == {Cents(0 - 1), 0, 1, Cents(1), Cents(2)}

Create(cur, neg) ==
  LET r == create(cur, neg) IN
  /\ lastCommand.op = "none"
  /\ account' = IF r.error = "none" THEN r.value ELSE NoAccount
  /\ lastCommand' = [NoCommand EXCEPT !.op = "create", !.before = account,
                                      !.error = r.error]
  /\ UNCHANGED <<storeVars, dedupVars, ucVars, replayVars>>

FromEvents(evs) ==
  LET r == fromEvents(evs) IN
  /\ lastCommand.op = "none"
  /\ account' = IF r.error = "none" THEN r.value ELSE NoAccount
  /\ lastCommand' = [NoCommand EXCEPT !.op = "fromEvents", !.events = evs,
                                      !.before = account, !.error = r.error]
  /\ UNCHANGED <<storeVars, dedupVars, ucVars, replayVars>>

Command(op, amt, r) ==
  /\ account.exists
  /\ account.version < MaxFold + MaxCommands
  /\ account' = IF r.error = "none" THEN r.value.state ELSE account
  /\ lastCommand' = [NoCommand EXCEPT !.op = op, !.amountCents = amt,
                                      !.events = IF r.error = "none"
                                                 THEN <<r.value.event>> ELSE <<>>,
                                      !.before = account, !.error = r.error]
  /\ UNCHANGED <<storeVars, dedupVars, ucVars, replayVars>>

RecordIncome(amt) == Command("recordIncome", amt, recordIncome(account, amt))
RecordExpense(amt) == Command("recordExpense", amt, recordExpense(account, amt))
RecordTransferSent(amt) ==
  Command("recordTransferSent", amt, recordTransferSent(account, "t1", amt))
RecordTransferReceived(amt) ==
  Command("recordTransferReceived", amt, recordTransferReceived(account, "t1", amt))

----------------------------------------------------------------------------
(* The use cases RecordIncome, RecordExpense and Transfer. *)

UseCaseUser == "u1"

\* What execute has loaded of a stream: whether it was empty, the version of
\* its last event, and what Account.fromEvents makes of its payloads.
NotLoaded == [empty |-> TRUE, version |-> 0 - 1, error |-> "none", state |-> NoAccount]

Loaded_StateVersion(agg) ==
  LET rows == loadStream(agg)
      payloads == [i \in 1 .. Len(rows) |-> rows[i].payload]
      folded == fromEvents(payloads)
  IN
  IF Len(rows) = 0 THEN NotLoaded
  ELSE [empty |-> FALSE, version |-> Len(rows),
        error |-> folded.error,
        state |-> IF folded.error = "none" THEN folded.value ELSE NoAccount]
Loaded(agg) ==
  LET rows == loadStream(agg)
      payloads == [i \in 1 .. Len(rows) |-> rows[i].payload]
      folded == fromEvents(payloads)
  IN
  IF Len(rows) = 0 THEN NotLoaded
  ELSE [empty |-> FALSE, version |-> rows[Len(rows)].version,
        error |-> folded.error,
        state |-> IF folded.error = "none" THEN folded.value ELSE NoAccount]

NoUseCaseResult ==
  [status |-> "none", correlationId |-> 0, balance |-> 0, toBalance |-> 0]

UseCaseError(name) == [NoUseCaseResult EXCEPT !.status = name]

UseCaseResult(corr, balance, toBalance) ==
  [status |-> "ok", correlationId |-> corr, balance |-> balance,
   toBalance |-> toBalance]

IdleUseCase ==
  [pc |-> "idle", op |-> "none", accountId |-> "A", toAccountId |-> "A",
   amountCents |-> 0, idempotencyKey |-> "k1", isDuplicate |-> FALSE,
   correlationId |-> 0, transferId |-> NoTransfer,
   currency |-> NoCurrency, allowNegative |-> FALSE,
   loaded |-> NotLoaded, loadedTo |-> NotLoaded, result |-> NoUseCaseResult]

\* randomUUID() in TransferUseCase: a value no other execution draws.
TransferIdOf_Same(n) == "x1"
TransferIdOf(n) == <<"x1", "x2", "x3", "x4", "x5", "x6">>[n]

RequestWithMetadata(agg, evs, expected, corr) ==
  [Request(agg, evs, expected) EXCEPT !.correlationId = corr]

\* if (dedupResult.isDuplicate) { ... return }
TakesDuplicateBranch_Never(u) == FALSE
TakesDuplicateBranch(u) == u.isDuplicate

\* What execute throws for a stream without events: NotFoundError, or a
\* plain Error in RecordExpenseUseCase and in the duplicate branch of
\* TransferUseCase.
NotFound(u) ==
  IF u.op = "recordExpense" \/ (u.op = "transfer" /\ u.isDuplicate)
  THEN UseCaseError("Error")
  ELSE UseCaseError("NotFoundError")

\* account.getState().balance.cents of the account just loaded.
CurrentBalance_Zero(l) == 0
CurrentBalance(l) == l.state.balance.cents

\* The duplicate branch: reload and return the current balance(s).
DuplicateOutcome(u) ==
  LET two == u.op = "transfer" IN
  IF u.loaded.empty \/ (two /\ u.loadedTo.empty) THEN NotFound(u)
  ELSE IF u.loaded.error # "none" THEN UseCaseError(u.loaded.error)
  ELSE IF two /\ u.loadedTo.error # "none" THEN UseCaseError(u.loadedTo.error)
  ELSE UseCaseResult(u.correlationId, CurrentBalance(u.loaded),
                     IF two THEN CurrentBalance(u.loadedTo) ELSE 0)

\* What an outcome is: a result returned at once, or a call of the event
\* store with the result to return when the call has committed.
ReturnNow(res) == [appends |-> <<>>, result |-> res]
AppendThen(appends, res) == [appends |-> appends, result |-> res]

\* RecordIncomeUseCase / RecordExpenseUseCase after beginCommand and
\* loadStream: fold, run the command method, append at the loaded version.
RecordOutcome(u) ==
  IF u.loaded.empty THEN ReturnNow(NotFound(u))
  ELSE IF u.loaded.error # "none" THEN ReturnNow(UseCaseError(u.loaded.error))
  ELSE
    LET r == IF u.op = "recordIncome"
             THEN recordIncome(u.loaded.state, u.amountCents)
             ELSE recordExpense(u.loaded.state, u.amountCents)
    IN
    IF r.error # "none" THEN ReturnNow(UseCaseError(r.error))
    ELSE AppendThen(<<RequestWithMetadata(u.accountId, <<r.value.event>>,
                                          u.loaded.version, u.correlationId)>>,
                    UseCaseResult(u.correlationId, r.value.state.balance.cents, 0))

SameCurrency_Always(fromState, toState) == TRUE
SameCurrency(fromState, toState) == fromState.currency = toState.currency

\* TransferUseCase after beginCommand and both loadStream calls.
TransferOutcome(u) ==
  IF u.loaded.empty \/ u.loadedTo.empty THEN ReturnNow(NotFound(u))
  ELSE IF u.loaded.error # "none" THEN ReturnNow(UseCaseError(u.loaded.error))
  ELSE IF u.loadedTo.error # "none" THEN ReturnNow(UseCaseError(u.loadedTo.error))
  ELSE IF ~SameCurrency(u.loaded.state, u.loadedTo.state)
       THEN ReturnNow(UseCaseError("CurrencyMismatchError"))
  ELSE
    LET sent == recordTransferSent(u.loaded.state, u.transferId, u.amountCents)
        received == recordTransferReceived(u.loadedTo.state, u.transferId,
                                           u.amountCents)
    IN
    IF sent.error # "none" THEN ReturnNow(UseCaseError(sent.error))
    ELSE IF received.error # "none" THEN ReturnNow(UseCaseError(received.error))
    ELSE AppendThen(
           <<RequestWithMetadata(u.accountId, <<sent.value.event>>,
                                 u.loaded.version, u.correlationId),
             RequestWithMetadata(u.toAccountId, <<received.value.event>>,
                                 u.loadedTo.version, u.correlationId)>>,
           UseCaseResult(u.correlationId, sent.value.state.balance.cents,
                         received.value.state.balance.cents))

Outcome(u) ==
  IF TakesDuplicateBranch(u) THEN ReturnNow(DuplicateOutcome(u))
  ELSE IF u.op = "transfer" THEN TransferOutcome(u)
  ELSE RecordOutcome(u)


UseCaseKeys == {"k1", "k2"}

UseCaseCommand(op, from, to, amt, key) ==
  [op |-> op, accountId |-> from, toAccountId |-> to, amountCents |-> amt,
   idempotencyKey |-> key]

UseCaseCommands ==
  {UseCaseCommand("recordIncome", "A", "A", amt, k) :
     amt \in {Cents(1), Cents(2)}, k \in UseCaseKeys}
  \cup {UseCaseCommand("recordExpense", "A", "A", Cents(1), k) : k \in UseCaseKeys}
  \cup {UseCaseCommand("transfer", p[1], p[2], Cents(1), k) :
          p \in {q \in Streams \X Streams : q[1] # q[2]}, k \in UseCaseKeys}

\* execute is called on the lowest client that is free: beginCommand draws
\* a correlationId and runs its statement; TransferUseCase draws its
\* transferId later, from the same source of fresh values.
Execute(c, cmd) ==
  LET corr == executions + 1
      up == Upsert(commandDedup, UseCaseUser, cmd.idempotencyKey, corr)
  IN
  /\ useCase[c].pc \in {"idle", "done"}
  /\ \A d \in Clients : d < c => useCase[d].pc \notin {"idle", "done"}
  /\ executions < MaxExecutions
  /\ executions' = executions + 1
  /\ commandDedup' = up.rows
  /\ useCase' = [useCase EXCEPT ![c] =
       [IdleUseCase EXCEPT
          !.pc = "load", !.op = cmd.op, !.accountId = cmd.accountId,
          !.toAccountId = cmd.toAccountId, !.amountCents = cmd.amountCents,
          !.idempotencyKey = cmd.idempotencyKey,
          !.isDuplicate = up.returned.correlationId # corr,
          !.correlationId = up.returned.correlationId,
          !.transferId = IF cmd.op = "transfer" THEN TransferIdOf(corr)
                         ELSE NoTransfer]]
  /\ UNCHANGED <<storeVars, dedupCall, aggVars, replayVars>>

\* The rest of execute up to its return or its call of the event store.
Decide(c, u) ==
  LET o == Outcome(u) IN
  IF o.appends = <<>>
  THEN /\ useCase' = [useCase EXCEPT ![c] = [u EXCEPT !.pc = "done",
                                                       !.result = o.result]]
       /\ UNCHANGED storeVars
  ELSE /\ useCase' = [useCase EXCEPT ![c] = [u EXCEPT !.pc = "await",
                                                       !.result = o.result]]
       /\ Begin(c, IF u.op = "transfer" THEN "appendMultiple" ELSE "append",
                o.appends)

\* loadStream of the account (the source account of a transfer).
LoadStream(c) ==
  LET u == [useCase[c] EXCEPT !.loaded = Loaded(useCase[c].accountId)] IN
  /\ useCase[c].pc = "load"
  /\ IF u.op = "transfer"
     THEN /\ useCase' = [useCase EXCEPT ![c] = [u EXCEPT !.pc = "loadTo"]]
          /\ UNCHANGED storeVars
     ELSE Decide(c, u)
  /\ UNCHANGED <<executions, dedupVars, aggVars, replayVars>>

\* loadStream of the destination account of a transfer.
LoadToStream(c) ==
  LET u == [useCase[c] EXCEPT !.loadedTo = Loaded(useCase[c].toAccountId)] IN
  /\ useCase[c].pc = "loadTo"
  /\ Decide(c, u)
  /\ UNCHANGED <<executions, dedupVars, aggVars, replayVars>>

\* The call of the event store has returned or thrown; execute returns its
\* result or lets the error through.
Return(c) ==
  LET u == useCase[c] IN
  /\ u.pc = "await"
  /\ tx[c].pc = "done"
  /\ useCase' = [useCase EXCEPT ![c] =
       [u EXCEPT !.pc = "done",
                 !.result = IF tx[c].result.status = "ok" THEN u.result
                            ELSE UseCaseError(tx[c].result.status)]]
  /\ UNCHANGED <<storeVars, executions, dedupVars, aggVars, replayVars>>

\* The accounts the use cases work on have been created by
\* CreateAccountUseCase: one AccountCreated event at version 0 each, and the
\* projection of it.
AccountSetups ==
  {<<AccountCreated(USD, FALSE), AccountCreated(USD, FALSE)>>,
   <<AccountCreated(USD, TRUE), AccountCreated(USD, TRUE)>>,
   <<AccountCreated(USD, FALSE), AccountCreated(EUR, FALSE)>>}

CreatedEvents(setup) ==
  {EventRow(1, "A", 0, setup[1], 0), EventRow(2, "B", 0, setup[2], 0)}

----------------------------------------------------------------------------
(* Timestamps and movement ids.  One client appends events one at a time;   *)
(* insertEvent and appendWithClient each work out occurredAt, the projector *)
(* stamps updated_at with the occurredAt of its context, and read_movements *)
(* fills movement_id from DEFAULT gen_random_uuid().  written keeps the log *)
(* and the read model of the appends, replayedModel the read model the rebuild   *)
(* puts in its place, kept beside it for comparison.                        *)

MaxLog == 2      \* events appended in one behaviour
MaxClock == 2    \* ticks of the clock in one behaviour

MovementIds == {"m1", "m2", "m3"}
\* The occurredAt a command carries in a financial event.
ClientTimes == {0, 1}
NoTime == 0 - 1

StampedPayloads == {AccountCreated(USD, FALSE), IncomeRecorded(Cents(2)), AccountArchived}

EmptyReadModel ==
  [accounts |-> [s \in Streams |-> NoRow],
   updatedAt |-> [s \in Streams |-> NoTime],
   movements |-> {}]

NoReplay == [done |-> FALSE, model |-> EmptyReadModel]

NothingWritten ==
  [pc |-> "idle", log |-> <<>>, handed |-> <<>>, model |-> EmptyReadModel]

\* The occurredAt insertEvent persists and the one appendWithClient hands
\* to the projector and returns: that of the event for a financial event,
\* new Date() otherwise.
OccurredAtNow(ev, eventOccurredAt) ==
  IF ev.type \in FinancialTypes THEN eventOccurredAt ELSE clock

\* The occurredAt the rebuild hands to the projector: that of the payload
\* of a financial event, the occurred_at column otherwise.
OccurredAtOfRow(row) ==
  IF row.payload.type \in FinancialTypes THEN row.eventOccurredAt ELSE row.occurredAt

\* Projector.project with the columns the handlers stamp: updated_at of the
\* row an INSERT or UPDATE touches, and the movement_id that the table's
\* default gives the movement inserted.
projectStamped(m, ev, ctx, id) ==
  LET plain == {x.row : x \in m.movements}
      p == project(m.accounts, plain, ev, ctx)
      touched == p.accounts[ctx.aggregateId] # NoRow
  IN
  [accounts |-> p.accounts,
   updatedAt |-> IF touched THEN [m.updatedAt EXCEPT ![ctx.aggregateId] = ctx.occurredAt]
                 ELSE m.updatedAt,
   movements |-> m.movements
                   \cup {[movementId |-> id, row |-> r] : r \in p.movements \ plain}]

ContextOf(row, occurredAt) ==
  [eventSeq |-> row.eventSeq, eventId |-> row.eventId,
   aggregateId |-> row.aggregateId, occurredAt |-> occurredAt]

\* insertEvent: the row is written with the occurredAt worked out here.
InsertStamped(s, ev, at) ==
  LET n == Len(written.log) + 1
      row == [eventSeq |-> n, eventId |-> n, aggregateId |-> s, payload |-> ev,
              eventOccurredAt |-> IF ev.type \in FinancialTypes THEN at ELSE NoTime,
              occurredAt |-> OccurredAtNow(ev, at)]
  IN
  /\ written.pc = "idle"
  /\ n <= MaxLog
  /\ written' = [written EXCEPT !.pc = "inserted", !.log = Append(@, row)]
  /\ replayedModel' = NoReplay
  /\ UNCHANGED clock
  /\ UNCHANGED <<storeVars, dedupVars, aggVars, ucVars>>

\* Time passes.
Tick ==
  /\ clock < MaxClock
  /\ clock' = clock + 1
  /\ UNCHANGED <<written, replayedModel>>
  /\ UNCHANGED <<storeVars, dedupVars, aggVars, ucVars>>

\* appendWithClient after insertEvent has returned: it works out occurredAt
\* again, and projects the event with it.
ProjectInserted(id) ==
  LET row == written.log[Len(written.log)]
      occurredAt == OccurredAtNow(row.payload, row.eventOccurredAt)
  IN
  /\ written.pc = "inserted"
  /\ id \notin {x.movementId : x \in written.model.movements}
  /\ written' = [written EXCEPT
       !.pc = "idle",
       !.handed = Append(@, occurredAt),
       !.model = projectStamped(@, row.payload, ContextOf(row, occurredAt), id)]
  /\ UNCHANGED <<clock, replayedModel>>
  /\ UNCHANGED <<storeVars, dedupVars, aggVars, ucVars>>

\* rebuildProjections over the stamped log; ids[i] is the movement_id the
\* table gives to the movement of event i.
replayStamped(log, ids) ==
  LET st[i \in 0 .. Len(log)] ==
        IF i = 0 THEN EmptyReadModel
        ELSE projectStamped(st[i - 1], log[i].payload,
                            ContextOf(log[i], OccurredAtOfRow(log[i])), ids[i])
  IN st[Len(log)]

RebuildStamped ==
  \E ids \in [1 .. Len(written.log) -> MovementIds] :
    /\ written.pc = "idle"
    /\ written.log # <<>>
    /\ ~replayedModel.done
    /\ \A i \in DOMAIN ids, j \in DOMAIN ids : i # j => ids[i] # ids[j]
    /\ replayedModel' = [done |-> TRUE, model |-> replayStamped(written.log, ids)]
    /\ UNCHANGED <<clock, written>>
    /\ UNCHANGED <<storeVars, dedupVars, aggVars, ucVars>>

NextReplay ==
  \/ \E s \in Streams, ev \in StampedPayloads, at \in ClientTimes : InsertStamped(s, ev, at)
  \/ Tick
  \/ \E id \in MovementIds : ProjectInserted(id)
  \/ RebuildStamped

----------------------------------------------------------------------------
(* CreateAccountUseCase. *)

\* const accountId = randomUUID(): a stream that nothing has used or is
\* about to use.
FreshAccountIds ==
  {s \in Streams :
     /\ \A e \in events : e.aggregateId # s
     /\ \A c \in Clients :
          useCase[c].pc \in {"create", "await"} => useCase[c].accountId # s}

\* this.eventStore.append('account', accountId, [event], -1, metadata)
CreateAccountAppend_AtZero(u) ==
  <<RequestWithMetadata(u.accountId,
                        <<AccountCreated(u.currency, u.allowNegative)>>,
                        0, u.correlationId)>>
CreateAccountAppend(u) ==
  <<RequestWithMetadata(u.accountId,
                        <<AccountCreated(u.currency, u.allowNegative)>>,
                        0 - 1, u.correlationId)>>

\* execute after beginCommand: the duplicate branch throws, Account.create
\* may throw, otherwise the AccountCreated event is appended.
CreateAccountOutcome(u) ==
  IF TakesDuplicateBranch(u) THEN ReturnNow(UseCaseError("Error"))
  ELSE
    LET r == create(u.currency, u.allowNegative) IN
    IF r.error # "none" THEN ReturnNow(UseCaseError(r.error))
    ELSE AppendThen(CreateAccountAppend(u), UseCaseResult(u.correlationId, 0, 0))

CreateAccountCommands ==
  {[currency |-> cur, allowNegative |-> neg, idempotencyKey |-> k] :
     cur \in {USD, EUR, <<"U", "S">>}, neg \in BOOLEAN, k \in UseCaseKeys}

\* execute is called: beginCommand runs its statement, and execute goes on
\* to its throw or to the call of the event store.
ExecuteCreateAccount(c, cmd) ==
  LET corr == executions + 1
      up == Upsert(commandDedup, UseCaseUser, cmd.idempotencyKey, corr)
      u == [IdleUseCase EXCEPT
              !.op = "createAccount",
              !.accountId = IF FreshAccountIds = {} THEN "A"
                            ELSE CHOOSE s \in FreshAccountIds : TRUE,
              !.idempotencyKey = cmd.idempotencyKey,
              !.currency = cmd.currency, !.allowNegative = cmd.allowNegative,
              !.isDuplicate = up.returned.correlationId # corr,
              !.correlationId = up.returned.correlationId]
      o == CreateAccountOutcome(u)
  IN
  /\ useCase[c].pc \in {"idle", "done"}
  /\ \A d \in Clients : d < c => useCase[d].pc \notin {"idle", "done"}
  /\ executions < MaxExecutions
  /\ o.appends # <<>> => FreshAccountIds # {}
  /\ executions' = executions + 1
  /\ commandDedup' = up.rows
  /\ useCase' = [useCase EXCEPT ![c] =
       IF o.appends = <<>>
       THEN [u EXCEPT !.pc = "done", !.result = o.result]
       ELSE [u EXCEPT !.pc = "create", !.result = o.result]]
  /\ UNCHANGED <<storeVars, dedupCall, aggVars, replayVars>>

\* await this.eventStore.append(...): the call starts.
AppendAccountCreated(c) ==
  LET u == useCase[c] IN
  /\ u.pc = "create"
  /\ useCase' = [useCase EXCEPT ![c] = [u EXCEPT !.pc = "await"]]
  /\ Begin(c, "append", CreateAccountOutcome(u).appends)
  /\ UNCHANGED <<executions, dedupVars, aggVars, replayVars>>

----------------------------------------------------------------------------
(* Specifications: the event store with its projector and rebuild under    *)
(* concurrent clients (Spec), concurrent beginCommand calls (SpecDedup),    *)
(* and the aggregate (SpecAccount).                                         *)

Init ==
  /\ events = {}
  /\ readAccounts = [s \in Streams |-> NoRow]
  /\ readMovements = {}
  /\ nextSeq = 1
  /\ calls = 0
  /\ tx = [c \in Clients |-> IdleTx]
  /\ rebuilt = "no"
  /\ commandDedup = {}
  /\ dedupCall = [c \in DedupCallers |-> IdleDedupCall]
  /\ account = NoAccount
  /\ lastCommand = NoCommand
  /\ useCase = [c \in Clients |-> IdleUseCase]
  /\ executions = 0
  /\ clock = 0
  /\ written = NothingWritten
  /\ replayedModel = NoReplay

Next ==
  \/ \E c \in Clients, req \in AppendRequests : append(c, req)
  \/ \E c \in Clients, appends \in MultiAppends : appendMultiple(c, appends)
  \/ \E c \in Clients : ReturnEmpty(c)
  \/ \E c \in Clients : CheckVersion(c)
  \/ \E c \in Clients : InsertEvent(c)
  \/ \E c \in Clients : Commit(c)
  \/ \E c \in Clients : DeadlockAbort(c)
  \/ Rebuild
  \/ RebuildFails

Spec == Init /\ [][Next]_vars

\* Every statement of a call is a round trip the caller awaits: Postgres
\* answers it unless it waits for a lock, and its deadlock detector fails
\* one of two statements that wait for each other once deadlock_timeout has
\* passed.  Nothing obliges a caller to make a further call, and the rebuild
\* is run by hand.
Scheduling ==
  \A c \in Clients :
    /\ WF_vars(ReturnEmpty(c))
    /\ WF_vars(CheckVersion(c))
    /\ WF_vars(InsertEvent(c))
    /\ WF_vars(Commit(c))
    /\ WF_vars(DeadlockAbort(c))

SpecLive == Init /\ [][Next]_vars /\ Scheduling

NextDedup ==
  \/ \E c \in DedupCallers, u \in Users, k \in IdempotencyKeys : beginCommand(c, u, k)
  \/ \E c \in DedupCallers : beginCommandReturn(c)

SpecDedup == Init /\ [][NextDedup]_vars

NextAccount ==
  \/ \E cur \in {USD, EUR}, neg \in BOOLEAN : Create(cur, neg)
  \/ \E evs \in SeqsUpTo(FoldPayloads, MaxFold) : FromEvents(evs)
  \/ \E amt \in CommandAmounts : RecordIncome(amt)
  \/ \E amt \in CommandAmounts : RecordExpense(amt)
  \/ \E amt \in CommandAmounts : RecordTransferSent(amt)
  \/ \E amt \in CommandAmounts : RecordTransferReceived(amt)

SpecAccount == Init /\ [][NextAccount]_vars

InitUseCase ==
  \E setup \in AccountSetups :
    /\ events = CreatedEvents(setup)
    /\ readAccounts = rebuildProjections(CreatedEvents(setup)).accounts
    /\ readMovements = {}
    /\ nextSeq = 3
    /\ calls = 0
    /\ tx = [c \in Clients |-> IdleTx]
    /\ rebuilt = "no"
    /\ commandDedup = {}
    /\ dedupCall = [c \in DedupCallers |-> IdleDedupCall]
    /\ account = NoAccount
    /\ lastCommand = NoCommand
    /\ useCase = [c \in Clients |-> IdleUseCase]
    /\ executions = 0
    /\ clock = 0
    /\ written = NothingWritten
    /\ replayedModel = NoReplay

NextUseCase ==
  \/ \E c \in Clients, cmd \in UseCaseCommands : Execute(c, cmd)
  \/ \E c \in Clients : LoadStream(c)
  \/ \E c \in Clients : LoadToStream(c)
  \/ \E c \in Clients : CheckVersion(c)
  \/ \E c \in Clients : InsertEvent(c)
  \/ \E c \in Clients : Commit(c)
  \/ \E c \in Clients : DeadlockAbort(c)
  \/ \E c \in Clients : Return(c)

SpecUseCase == InitUseCase /\ [][NextUseCase]_vars

\* The use cases on two accounts that already hold money: both created in
\* USD without allowNegative, and one IncomeRecorded of one cent recorded on
\* each.
FundedEvents ==
  CreatedEvents(<<AccountCreated(USD, FALSE), AccountCreated(USD, FALSE)>>)
    \cup {EventRow(3, "A", 1, IncomeRecorded(Cents(1)), 0),
          EventRow(4, "B", 1, IncomeRecorded(Cents(1)), 0)}

InitFunded ==
  /\ events = FundedEvents
  /\ readAccounts = rebuildProjections(FundedEvents).accounts
  /\ readMovements = rebuildProjections(FundedEvents).movements
  /\ nextSeq = 5
  /\ calls = 0
  /\ tx = [c \in Clients |-> IdleTx]
  /\ rebuilt = "no"
  /\ commandDedup = {}
  /\ dedupCall = [c \in DedupCallers |-> IdleDedupCall]
  /\ account = NoAccount
  /\ lastCommand = NoCommand
  /\ useCase = [c \in Clients |-> IdleUseCase]
  /\ executions = 0
  /\ clock = 0
  /\ written = NothingWritten
  /\ replayedModel = NoReplay

\* The commands of one cent: an income and an expense on A, transfers in
\* both directions, and a transfer from A to A itself.
FundedCommands ==
  {cmd \in UseCaseCommands : cmd.amountCents = Cents(1)}
    \cup {UseCaseCommand("transfer", "A", "A", Cents(1), "k1")}

NextFunded ==
  \/ \E c \in Clients, cmd \in FundedCommands : Execute(c, cmd)
  \/ \E c \in Clients : LoadStream(c)
  \/ \E c \in Clients : LoadToStream(c)
  \/ \E c \in Clients : CheckVersion(c)
  \/ \E c \in Clients : InsertEvent(c)
  \/ \E c \in Clients : Commit(c)
  \/ \E c \in Clients : DeadlockAbort(c)
  \/ \E c \in Clients : Return(c)

SpecFunded == InitFunded /\ [][NextFunded]_vars

NextCreateAccount ==
  \/ \E c \in Clients, cmd \in CreateAccountCommands : ExecuteCreateAccount(c, cmd)
  \/ \E c \in Clients : AppendAccountCreated(c)
  \/ \E c \in Clients : CheckVersion(c)
  \/ \E c \in Clients : InsertEvent(c)
  \/ \E c \in Clients : Commit(c)
  \/ \E c \in Clients : Return(c)

SpecCreateAccount == Init /\ [][NextCreateAccount]_vars

SpecReplay == Init /\ [][NextReplay]_vars

----------------------------------------------------------------------------
(* Properties of the event store (Spec). *)

\* C1 (amended): an append call that has at least one event to write, in
\* any reachable log state: when expectedVersion equals the stream's
\* committed version, the version check passes, no insert fails while that
\* is still the committed version, and the commit advances the stream's
\* version by exactly the number of events appended; when expectedVersion
\* is any other value the call fails with ConcurrencyError(expected, actual)
\* and the event table and both projection tables are unchanged.
AppendExpectedVersion ==
  [][\A c \in Clients :
       LET t == tx[c] IN
       (t.kind = "append" /\ Active(t) /\ t.ri > 0 /\ tx'[c] # t) =>
         LET req == t.appends[1]
             trueVersion == getStreamVersion(req.aggregateId)
         IN
         /\ (t.pc = "check" /\ trueVersion = req.expectedVersion) =>
              tx'[c].pc = "insert"
         /\ (t.pc = "check" /\ trueVersion # req.expectedVersion) =>
              /\ tx'[c].pc = "done"
              /\ tx'[c].result = ConcurrencyError(req.expectedVersion, trueVersion)
              /\ UNCHANGED <<events, readAccounts, readMovements>>
         /\ (t.pc = "insert" /\ trueVersion = req.expectedVersion) =>
              tx'[c].pc \in {"insert", "commit"}
         /\ t.pc = "commit" =>
              /\ tx'[c].result = Ok
              /\ trueVersion = req.expectedVersion
              /\ StreamVersion(events', req.aggregateId)
                   = trueVersion + Len(req.events)
    ]_vars

\* C1, witness: one append has committed two events on an empty stream
\* (version -1 to 1) and another call has been refused with a
\* ConcurrencyError whose actual version is that committed version.
AppendExpectedVersionWitness ==
  \E c \in Clients, s \in Streams :
    /\ tx[c].pc = "done"
    /\ tx[c].result.status = "ConcurrencyError"
    /\ tx[c].result.actualVersion = 1
    /\ getStreamVersion(s) = 1
    /\ events # {}

\* C1 as stated: every append call, an empty event list included, succeeds
\* when expectedVersion is the stream's committed version and fails with
\* ConcurrencyError, writing nothing, for any other expectedVersion.
AppendExpectedVersionAnyList ==
  [][\A c \in Clients :
       LET t == tx[c] IN
       (t.kind = "append" /\ Active(t) /\ tx'[c] # t) =>
         LET req == t.appends[1]
             trueVersion == getStreamVersion(req.aggregateId)
         IN
         /\ (t.pc = "check" /\ trueVersion = req.expectedVersion) =>
              \/ tx'[c].pc = "insert"
              \/ Len(req.events) = 0 /\ tx'[c].result = Ok
         /\ (t.pc = "check" /\ trueVersion # req.expectedVersion) =>
              /\ tx'[c].pc = "done"
              /\ tx'[c].result = ConcurrencyError(req.expectedVersion, trueVersion)
              /\ UNCHANGED <<events, readAccounts, readMovements>>
         /\ (t.pc = "insert" /\ trueVersion = req.expectedVersion) =>
              tx'[c].pc \in {"insert", "commit"}
         /\ t.pc = "commit" =>
              /\ tx'[c].result = Ok
              /\ StreamVersion(events', req.aggregateId)
                   = trueVersion + Len(req.events)
    ]_vars

\* C2: appendMultiple is all-or-nothing.  When the call returns with an
\* error, the event table and both projection tables are what they were and
\* none of the events it had inserted for earlier requests is in the log;
\* when it returns normally, the events of all its requests (and their
\* movements) become visible in that one step.
AppendMultipleAllOrNothing ==
  [][\A c \in Clients :
       LET t == tx[c] IN
       (t.kind = "appendMultiple" /\ Active(t) /\ tx'[c].pc = "done") =>
         IF tx'[c].result.status = "ok"
         THEN /\ events' = events \cup t.wEvents
              /\ Cardinality(events' \ events) = TotalEvents(t.appends)
              /\ \A i \in 1 .. Len(t.appends) :
                   \A k \in 1 .. Len(t.appends[i].events) :
                     \E e \in events' \ events :
                       /\ e.aggregateId = t.appends[i].aggregateId
                       /\ e.version = t.appends[i].expectedVersion + k
                       /\ e.payload = t.appends[i].events[k]
              /\ readMovements' = readMovements \cup t.wMovements
         ELSE /\ UNCHANGED <<events, readAccounts, readMovements>>
              /\ t.wEvents \cap events' = {}
    ]_vars

\* C2, witness: the only call made so far inserted an event (it drew a
\* sequence value), then failed the version check of a later request, and
\* the log is empty: an appendMultiple whose second request conflicted.
AppendMultipleAllOrNothingWitness ==
  /\ calls = 1
  /\ nextSeq = 2
  /\ events = {}
  /\ readMovements = {}
  /\ \E c \in Clients :
       tx[c].pc = "done" /\ tx[c].result.status = "ConcurrencyError"

\* C3: of the append calls that race on one stream with the same
\* expectedVersion at most one commits.  A call that returns normally
\* found the stream at its expectedVersion and adds its batch at versions
\* expectedVersion + 1 ..; a stream's version never decreases, and the log
\* never holds two events with the same stream and version, so no second
\* call with that expectedVersion can commit and the stream holds exactly
\* one event at each version.
OneWinnerPerVersion ==
  [][/\ \A s \in Streams :
          /\ StreamVersion(events', s) >= StreamVersion(events, s)
          /\ Cardinality({e \in events' : e.aggregateId = s})
               = StreamVersion(events', s) + 1
     /\ \A c \in Clients :
          LET t == tx[c] IN
          (Active(t) /\ tx'[c].pc = "done" /\ tx'[c].result.status = "ok") =>
            \A i \in 1 .. Len(t.appends) :
              LET req == t.appends[i]
                  earlier == {j \in 1 .. i - 1 :
                                t.appends[j].aggregateId = req.aggregateId}
              IN
              Len(req.events) > 0 =>
                /\ earlier = {} =>
                     StreamVersion(events, req.aggregateId) = req.expectedVersion
                /\ \A k \in 1 .. Len(req.events) :
                     \E e \in events' \ events :
                       /\ e.aggregateId = req.aggregateId
                       /\ e.version = req.expectedVersion + k
                       /\ e.payload = req.events[k]
    ]_vars

\* C3, witness: two calls raced past the version check of the same stream;
\* one committed and the other was failed by the uniqueness constraint.
OneWinnerPerVersionWitness ==
  /\ calls = 2
  /\ \E c, d \in Clients :
       /\ tx[c].pc = "done" /\ tx[c].result.status = "ok"
       /\ tx[d].pc = "done" /\ tx[d].result.status = "DatabaseError"
       /\ tx[d].result.code = "25P02"
  /\ \E s \in Streams : StreamVersion(events, s) >= 0

\* C4 as stated: an insert that passed the version check and meets the
\* uniqueness constraint because a concurrent writer committed the same
\* (stream, version) first returns ConcurrencyError to the caller.
UniqueViolationIsConcurrencyError ==
  [][\A c \in Clients :
       LET t == tx[c] IN
       (t.pc = "insert" /\ ~Blocked(c) /\ tx'[c] # t
          /\ HoldsKey(events, t.appends[t.ri].aggregateId,
                      t.appends[t.ri].expectedVersion + t.ei)) =>
         tx'[c].result.status = "ConcurrencyError"
    ]_vars

\* C5: append and appendMultiple fully commit or fully roll back.  What a
\* transaction has written is in no committed table while it is open; the
\* committed tables change only in the step that commits one call, which
\* adds all of the call's events together with one movement for each of its
\* financial events and the balance effect of those movements (or in a
\* rebuild, which leaves the log alone); a call that returns with an error
\* leaves the log and both read models exactly as they were.
FullCommitOrFullRollback ==
  [][/\ \A c \in Clients :
          Active(tx[c]) =>
            /\ tx[c].wEvents \cap events = {}
            /\ tx[c].wMovements \cap readMovements = {}
     /\ <<events, readAccounts, readMovements>>' # <<events, readAccounts, readMovements>> =>
          \/ /\ rebuilt' = "done"
             /\ events' = events
          \/ \E c \in Clients :
               LET t == tx[c]
                   newEvents == events' \ events
                   newMovements == readMovements' \ readMovements
               IN
               /\ t.pc = "commit"
               /\ tx'[c].pc = "done" /\ tx'[c].result = Ok
               /\ events \subseteq events' /\ readMovements \subseteq readMovements'
               /\ newEvents = t.wEvents
               /\ Cardinality(newEvents) = TotalEvents(t.appends)
               /\ \A e \in newEvents :
                    e.payload.type \in FinancialTypes =>
                      \E m \in newMovements :
                        /\ m.eventSeq = e.eventSeq
                        /\ m.accountId = e.aggregateId
                        /\ m.amountCents = e.payload.amountCents
               /\ \A m \in newMovements :
                    \E e \in newEvents :
                      e.eventSeq = m.eventSeq /\ e.payload.type \in FinancialTypes
               /\ \A s \in Streams :
                    readAccounts[s].exists =>
                      readAccounts'[s].balanceCents
                        = readAccounts[s].balanceCents + MovementSum(newMovements, s)
     /\ \A c \in Clients :
          (Active(tx[c]) /\ tx'[c].pc = "done" /\ tx'[c].result.status # "ok") =>
            UNCHANGED <<events, readAccounts, readMovements>>
    ]_vars

\* C5, witness: one call has committed events with their movements while
\* another transaction is open and holds an uncommitted event and movement.
FullCommitOrFullRollbackWitness ==
  /\ events # {}
  /\ readMovements # {}
  /\ \E c \in Clients :
       /\ Active(tx[c])
       /\ tx[c].wEvents # {}
       /\ tx[c].wMovements # {}

\* C6: replay determinism.  In every state of the committed tables,
\* truncating the projections and replaying all committed events through
\* the projector in ascending event_seq order gives every account the
\* balance it has and the set of movements (kind, amount, account,
\* transferId, source event) it has.
ReplayDeterminism ==
  LET replayed == rebuildProjections(events)
      MovementsOf(movs, s) ==
        {<<m.kind, m.amountCents, m.accountId, m.transferId, m.eventId>> :
           m \in {x \in movs : x.accountId = s}}
  IN
  \A s \in Streams :
    /\ replayed.accounts[s].exists = readAccounts[s].exists
    /\ replayed.accounts[s].balanceCents = readAccounts[s].balanceCents
    /\ MovementsOf(replayed.movements, s) = MovementsOf(readMovements, s)

\* C6, witness: the projections have been rebuilt from a log of at least
\* three events that left a non-zero balance and movements.
ReplayDeterminismWitness ==
  /\ rebuilt = "done"
  /\ Cardinality(events) >= 3
  /\ readMovements # {}
  /\ \E s \in Streams : readAccounts[s].exists /\ readAccounts[s].balanceCents # 0

\* C8 (amended): in every committed state, for every read_accounts row of
\* an account whose stream begins with its AccountCreated event,
\* balance_cents equals the signed sum of the account's read_movements
\* (income +, expense -, transfer_out -, transfer_in +).
ProjectionBalance ==
  \A s \in Streams :
    (/\ readAccounts[s].exists
     /\ \E e \in events :
          e.aggregateId = s /\ e.version = 0 /\ e.payload.type = "AccountCreated") =>
      readAccounts[s].balanceCents = MovementSum(readMovements, s)

\* C8, witness: an account created first, then credited 2 and debited 1.
ProjectionBalanceWitness ==
  \E s \in Streams :
    /\ readAccounts[s].exists
    /\ \E e \in events :
         e.aggregateId = s /\ e.version = 0 /\ e.payload.type = "AccountCreated"
    /\ readAccounts[s].balanceCents = Cents(1)
    /\ Cardinality({m \in readMovements : m.accountId = s}) = 2

\* C8 as stated: for every read_accounts row, whatever its stream holds,
\* balance_cents equals the signed sum of the account's read_movements.
ProjectionBalanceAnyStream ==
  \A s \in Streams :
    readAccounts[s].exists =>
      readAccounts[s].balanceCents = MovementSum(readMovements, s)

\* The semantic kind of a financial event.
KindOf(type) ==
  CASE type = "IncomeRecorded" -> "income"
    [] type = "ExpenseRecorded" -> "expense"
    [] type = "TransferSent" -> "transfer_out"
    [] type = "TransferReceived" -> "transfer_in"
    [] OTHER -> "none"

MovementRowsOf(e) == {m \in readMovements : m.eventId = e.eventId}

\* C25: movement traceability.  In every committed state each committed
\* financial event has exactly one read_movements row, with the event's
\* semantic kind, amount, stream, event_id and event_seq; AccountCreated and
\* AccountArchived have no movement row; every movement row points to a
\* committed financial event.
MovementTraceability ==
  /\ \A e \in events :
       IF e.payload.type \in FinancialTypes
       THEN /\ Cardinality(MovementRowsOf(e)) = 1
            /\ \A m \in MovementRowsOf(e) :
                 /\ m.kind = KindOf(e.payload.type)
                 /\ m.amountCents = e.payload.amountCents
                 /\ m.accountId = e.aggregateId
                 /\ m.eventSeq = e.eventSeq
                 /\ m.transferId = e.payload.transferId
       ELSE MovementRowsOf(e) = {}
  /\ \A m \in readMovements :
       \E e \in events :
         /\ e.eventId = m.eventId
         /\ e.eventSeq = m.eventSeq
         /\ e.payload.type \in FinancialTypes

\* C25, witness: the log holds an AccountCreated event and the two events
\* of a transfer, and read_movements holds the two rows of the transfer.
MovementTraceabilityWitness ==
  /\ \E e \in events : e.payload.type = "AccountCreated"
  /\ \E e \in events : e.payload.type = "TransferSent" /\ MovementRowsOf(e) # {}
  /\ \E e \in events : e.payload.type = "TransferReceived" /\ MovementRowsOf(e) # {}
  /\ Cardinality(events) = 3
  /\ Cardinality(readMovements) = 2

----------------------------------------------------------------------------
(* Properties of CommandDedupRepo (SpecDedup). *)

\* C7: beginCommand is idempotent under concurrency.  In any interleaving,
\* the calls that have returned for one (userId, idempotencyKey) all carry
\* one and the same correlationId, which is the stored one, exactly one
\* command_dedup row exists for the pair, and exactly one of those calls
\* returned isDuplicate = false.
BeginCommandIdempotent ==
  \A u \in Users, k \in IdempotencyKeys :
    LET returned == {c \in DedupCallers :
                       /\ dedupCall[c].pc = "done"
                       /\ dedupCall[c].userId = u
                       /\ dedupCall[c].idempotencyKey = k}
    IN
    returned # {} =>
      /\ \A c, d \in returned :
           dedupCall[c].result.correlationId = dedupCall[d].result.correlationId
      /\ \A c \in returned : dedupCall[c].result.correlationId = getCorrelationId(u, k)
      /\ Cardinality(RowsOf(commandDedup, u, k)) = 1
      /\ Cardinality({c \in returned : ~dedupCall[c].result.isDuplicate}) = 1

\* C7, witness: every caller has called beginCommand with the same pair
\* while the others' calls were in flight, and all have returned.
BeginCommandIdempotentWitness ==
  /\ \A c \in DedupCallers :
       /\ dedupCall[c].pc = "done"
       /\ dedupCall[c].userId = "u1"
       /\ dedupCall[c].idempotencyKey = "k1"
  /\ \E c \in DedupCallers : dedupCall[c].result.isDuplicate
  /\ \E c \in DedupCallers : dedupCall[c].result.correlationId # c

\* C23: command_dedup rows are read-only after creation.  No step removes
\* a row or changes its correlationId, there is never a second row for a
\* (userId, idempotencyKey), and getCorrelationId returns the correlationId
\* of the pair's row before and after every step, and null (0) when the
\* pair has no row.
DedupRowsReadOnly ==
  [][/\ commandDedup \subseteq commandDedup'
     /\ \A u \in Users, k \in IdempotencyKeys :
          /\ Cardinality(RowsOf(commandDedup', u, k)) <= 1
          /\ RowsOf(commandDedup, u, k) = {} => getCorrelationId(u, k) = 0
          /\ RowsOf(commandDedup', u, k) = {} => getCorrelationId(u, k)' = 0
          /\ \A r \in RowsOf(commandDedup, u, k) :
               /\ r.correlationId # 0
               /\ getCorrelationId(u, k) = r.correlationId
               /\ getCorrelationId(u, k)' = r.correlationId
    ]_vars

\* C23, witness: user u1's row for k1 holds the correlationId of the first
\* call, a later call for the pair has returned as a duplicate, user u2
\* has a row for k2 and none for k1.
DedupRowsReadOnlyWitness ==
  /\ getCorrelationId("u1", "k1") = 1
  /\ getCorrelationId("u2", "k1") = 0
  /\ getCorrelationId("u2", "k2") # 0
  /\ \E c \in DedupCallers :
       /\ dedupCall[c].pc = "done"
       /\ dedupCall[c].userId = "u1"
       /\ dedupCall[c].idempotencyKey = "k1"
       /\ dedupCall[c].result.isDuplicate
       /\ dedupCall[c].result.correlationId = 1

\* C24: idempotency keys are scoped per user.  Two calls of beginCommand
\* that differ in the user or in the key return distinct correlationIds,
\* and a call returns isDuplicate = true only when an earlier call of the
\* same user with the same key created the row it returns, so the first
\* call of each (userId, idempotencyKey) returns isDuplicate = false
\* whatever other users did with that key.
KeysScopedPerUser ==
  /\ \A c \in DedupCallers : \A d \in DedupCallers :
       ( /\ dedupCall[c].pc = "done"
         /\ dedupCall[d].pc = "done"
         /\ \/ dedupCall[c].userId # dedupCall[d].userId
            \/ dedupCall[c].idempotencyKey # dedupCall[d].idempotencyKey )
       => dedupCall[c].result.correlationId # dedupCall[d].result.correlationId
  /\ \A c \in DedupCallers :
       dedupCall[c].pc = "done" =>
         LET first == dedupCall[dedupCall[c].result.correlationId] IN
         /\ first.pc = "done"
         /\ first.userId = dedupCall[c].userId
         /\ first.idempotencyKey = dedupCall[c].idempotencyKey
         /\ ~first.result.isDuplicate
         /\ dedupCall[c].result.isDuplicate <=>
              dedupCall[c].result.correlationId # dedupCall[c].correlationId
  /\ \A r \in commandDedup :
       /\ dedupCall[r.correlationId].userId = r.userId
       /\ dedupCall[r.correlationId].idempotencyKey = r.idempotencyKey

\* C24, witness: the key k1 was used by u1 and then by u2, and u1 also used
\* k2; the three calls returned isDuplicate = false and three correlationIds.
KeysScopedPerUserWitness ==
  \E c1 \in DedupCallers, c2 \in DedupCallers, c3 \in DedupCallers :
    /\ \A c \in {c1, c2, c3} : dedupCall[c].pc = "done" /\ ~dedupCall[c].result.isDuplicate
    /\ dedupCall[c1].userId = "u1" /\ dedupCall[c1].idempotencyKey = "k1"
    /\ dedupCall[c2].userId = "u2" /\ dedupCall[c2].idempotencyKey = "k1"
    /\ dedupCall[c3].userId = "u1" /\ dedupCall[c3].idempotencyKey = "k2"
    /\ Cardinality({dedupCall[c].result.correlationId : c \in {c1, c2, c3}}) = 3

----------------------------------------------------------------------------
(* Properties of the Account aggregate (SpecAccount). *)

\* C9 as stated: for every event sequence accepted by Account.fromEvents
\* the resulting balance equals the signed sum of the events' amounts
\* (IncomeRecorded +, ExpenseRecorded -, TransferSent -, TransferReceived +,
\* AccountCreated and AccountArchived 0).
FoldedBalanceIsSignedSum ==
  (lastCommand.op = "fromEvents" /\ lastCommand.error = "none") =>
    LET evs == lastCommand.events
        sum[i \in 0 .. Len(evs)] ==
          IF i = 0 THEN 0 ELSE sum[i - 1] + SignedAmount(evs[i])
    IN account.balance.cents = sum[Len(evs)]

\* C10: debit guard.  For every aggregate state and positive amount,
\* recordExpense and recordTransferSent return normally when allowNegative
\* is set or balance - amount >= 0 (a result of exactly 0 included) and
\* throw InsufficientBalanceError otherwise; recordIncome and
\* recordTransferReceived never throw InsufficientBalanceError.
DebitGuard ==
  LET before == lastCommand.before
      amt == lastCommand.amountCents
  IN
  /\ (lastCommand.op \in {"recordExpense", "recordTransferSent"} /\ amt > 0) =>
       IF before.allowNegative \/ before.balance.cents - amt >= 0
       THEN /\ lastCommand.error = "none"
            /\ account.balance.cents = before.balance.cents - amt
       ELSE /\ lastCommand.error = "InsufficientBalanceError"
            /\ account = before
  /\ lastCommand.op \in {"recordIncome", "recordTransferReceived"} =>
       lastCommand.error # "InsufficientBalanceError"

\* C10, witness: a debit that brought the balance of an account without
\* allowNegative to exactly 0 has been accepted.
DebitGuardWitness ==
  /\ lastCommand.op \in {"recordExpense", "recordTransferSent"}
  /\ lastCommand.amountCents > 0
  /\ ~lastCommand.before.allowNegative
  /\ lastCommand.before.balance.cents = lastCommand.amountCents
  /\ lastCommand.error = "none"
  /\ account.balance.cents = 0

\* C11 as stated: each command method (recordIncome, recordExpense,
\* recordTransferSent, recordTransferReceived) accepts only an amount that
\* is a positive integer number of cents and throws InvalidAmountError for
\* any other amount; a command method that throws InvalidAmountError or
\* InsufficientBalanceError produces no event and leaves the aggregate's
\* balance and version unchanged.
CommandValidatesAmount ==
  LET amt == lastCommand.amountCents
      positiveInteger == amt > 0 /\ amt % 2 = 0
  IN
  lastCommand.op \in {"recordIncome", "recordExpense", "recordTransferSent",
                      "recordTransferReceived"} =>
    /\ ~positiveInteger => lastCommand.error = "InvalidAmountError"
    /\ positiveInteger => lastCommand.error # "InvalidAmountError"
    /\ lastCommand.error \in {"InvalidAmountError", "InsufficientBalanceError"} =>
         /\ lastCommand.events = <<>>
         /\ account.balance = lastCommand.before.balance
         /\ account.version = lastCommand.before.version

\* C12: across the executions of RecordIncome, RecordExpense and Transfer
\* that share one (userId, idempotencyKey), and so one correlationId, the
\* command's events are appended at most once: a stream holds at most one
\* event of a correlationId, and two events of one correlationId are the two
\* halves of one transfer. An execution for which beginCommand reported
\* isDuplicate = true never has a transaction of the event store running,
\* and what it returns is the balance it loaded with no command method
\* applied, whatever its amount.
IdempotentUseCases ==
  /\ \A e1 \in events : \A e2 \in events :
       (e1.correlationId = e2.correlationId /\ e1.correlationId # 0 /\ e1 # e2) =>
         /\ e1.aggregateId # e2.aggregateId
         /\ {e1.payload.type, e2.payload.type} = {"TransferSent", "TransferReceived"}
         /\ e1.payload.transferId = e2.payload.transferId
  /\ \A c \in Clients :
       (useCase[c].pc # "idle" /\ useCase[c].isDuplicate) =>
         /\ useCase[c].pc # "await"
         /\ ~Active(tx[c])
         /\ useCase[c].pc = "done" /\ useCase[c].result.status = "ok" =>
              useCase[c].result.balance = useCase[c].loaded.state.balance.cents

\* C12, witness: an execution that was a duplicate has returned, its amount
\* differs from the amount of the one event its correlationId has in the log.
IdempotentUseCasesWitness ==
  \E c \in Clients :
    /\ useCase[c].pc = "done"
    /\ useCase[c].isDuplicate
    /\ useCase[c].result.status = "ok"
    /\ \E e \in events :
         /\ e.correlationId = useCase[c].correlationId
         /\ e.payload.type = "IncomeRecorded"
         /\ e.payload.amountCents # useCase[c].amountCents
         /\ \A f \in events : f.correlationId = e.correlationId => f = e

\* The event a correlationId has in a stream, and the balance the execution
\* that appended it returned: the stream folded up to and including it.
EventOf(corr, agg) ==
  {e \in events : e.aggregateId = agg /\ e.correlationId = corr}

BalanceReturnedByFirst(corr, agg) ==
  LET rows == loadStream(agg)
      i == CHOOSE j \in 1 .. Len(rows) : rows[j].correlationId = corr
  IN
  fromEvents([j \in 1 .. i |-> rows[j].payload]).value.balance.cents

\* The duplicate execution u repeats the command whose events are in the
\* log: same kind of command on the same account(s).
RepeatsCommand(u) ==
  /\ u.pc = "done"
  /\ u.isDuplicate
  /\ u.result.status = "ok"
  /\ EventOf(u.correlationId, u.accountId) # {}
  /\ \A e \in EventOf(u.correlationId, u.accountId) :
       e.payload.type = CASE u.op = "recordIncome" -> "IncomeRecorded"
                          [] u.op = "recordExpense" -> "ExpenseRecorded"
                          [] OTHER -> "TransferSent"
  /\ u.op = "transfer" =>
       \E e \in EventOf(u.correlationId, u.toAccountId) :
         e.payload.type = "TransferReceived"

\* C13 as stated: a repeated execution of RecordIncome, RecordExpense or
\* Transfer with the same (userId, idempotencyKey) returns the correlationId
\* and the balance(s) that the first execution returned.
RepeatReturnsFirstResult ==
  \A c \in Clients :
    LET u == useCase[c] IN
    RepeatsCommand(u) =>
      /\ u.result.correlationId = u.correlationId
      /\ u.result.balance = BalanceReturnedByFirst(u.correlationId, u.accountId)
      /\ u.op = "transfer" =>
           u.result.toBalance = BalanceReturnedByFirst(u.correlationId, u.toAccountId)

\* The repeated execution loaded a stream exactly as the first execution
\* left it: the last event it read is the event of its correlationId.
LoadedAsLeft(corr, agg, l) ==
  \E e \in EventOf(corr, agg) : e.version = l.version

\* C13, amended: a repeated execution returns the correlationId of the
\* first execution, the one command_dedup holds for the key; it returns the
\* balance the first execution returned for each account that it loaded with
\* the first execution's event as the last event of the stream.
RepeatReturnsCurrentBalance ==
  \A c \in Clients :
    LET u == useCase[c] IN
    RepeatsCommand(u) =>
      /\ u.result.correlationId = getCorrelationId(UseCaseUser, u.idempotencyKey)
      /\ \A e \in EventOf(u.correlationId, u.accountId) :
           e.correlationId = u.result.correlationId
      /\ LoadedAsLeft(u.correlationId, u.accountId, u.loaded) =>
           u.result.balance = BalanceReturnedByFirst(u.correlationId, u.accountId)
      /\ (u.op = "transfer" /\ LoadedAsLeft(u.correlationId, u.toAccountId, u.loadedTo)) =>
           u.result.toBalance = BalanceReturnedByFirst(u.correlationId, u.toAccountId)

\* C13, witness: a repeated transfer has returned both balances that the
\* first execution returned, and they are not the balances before it.
RepeatReturnsCurrentBalanceWitness ==
  \E c \in Clients :
    LET u == useCase[c] IN
    /\ RepeatsCommand(u)
    /\ u.op = "transfer"
    /\ LoadedAsLeft(u.correlationId, u.accountId, u.loaded)
    /\ LoadedAsLeft(u.correlationId, u.toAccountId, u.loadedTo)
    /\ u.result.balance = BalanceReturnedByFirst(u.correlationId, u.accountId)
    /\ u.result.toBalance = BalanceReturnedByFirst(u.correlationId, u.toAccountId)
    /\ u.result.toBalance = Cents(1)

\* C14 as stated: a use-case execution has failed, with ConcurrencyError or
\* a domain error, and appended nothing; the same command is executed again
\* with the same (userId, idempotencyKey), no other execution is running,
\* and on the streams it has reloaded the command is valid. Then the
\* execution runs the command method and appends the command's event.
RetriedCommandExecutes ==
  [][\A c \in Clients : \A d \in Clients \ {c} :
       LET failed == useCase[d]
           retry == useCase'[c]
       IN
       ( /\ useCase[c].pc \in {"load", "loadTo"}
         /\ retry.pc \in {"await", "done"}
         /\ failed.pc = "done"
         /\ failed.result.status \notin {"ok", "none"}
         /\ failed.idempotencyKey = retry.idempotencyKey
         /\ failed.op = retry.op
         /\ failed.accountId = retry.accountId
         /\ failed.toAccountId = retry.toAccountId
         /\ failed.amountCents = retry.amountCents
         /\ EventOf(failed.correlationId, failed.accountId) = {}
         /\ Outcome([retry EXCEPT !.isDuplicate = FALSE]).appends # <<>> )
       => /\ retry.pc = "await"
          /\ Active(tx'[c])
          /\ tx'[c].appends = Outcome([retry EXCEPT !.isDuplicate = FALSE]).appends
    ]_vars

\* The events and movements of a transfer: by stream, type, transferId and
\* amount.
TransferEvents(rows, agg, type, tid, amt) ==
  {e \in rows : /\ e.aggregateId = agg
                /\ e.payload.type = type
                /\ e.payload.transferId = tid
                /\ e.payload.amountCents = amt}

TransferMovements(movs, agg, kind, tid) ==
  {m \in movs : m.accountId = agg /\ m.kind = kind /\ m.transferId = tid}

\* The log and the read model hold the transfer of execution u: exactly one
\* TransferSent in the source stream and one TransferReceived in the
\* destination stream with u's transferId, both of u's amount, and one
\* transfer_out and one transfer_in movement with that transferId.
TransferRecorded(u, rows, movs) ==
  /\ Cardinality(TransferEvents(rows, u.accountId, "TransferSent",
                                u.transferId, u.amountCents)) = 1
  /\ Cardinality(TransferEvents(rows, u.toAccountId, "TransferReceived",
                                u.transferId, u.amountCents)) = 1
  /\ Cardinality({e \in rows : e.payload.transferId = u.transferId}) = 2
  /\ Cardinality(TransferMovements(movs, u.accountId, "transfer_out",
                                   u.transferId)) = 1
  /\ Cardinality(TransferMovements(movs, u.toAccountId, "transfer_in",
                                   u.transferId)) = 1
  /\ Cardinality({m \in movs : m.transferId = u.transferId}) = 2

\* C15 as stated: every TransferUseCase.execute that returns normally has
\* appended exactly one TransferSent to the source stream and one
\* TransferReceived to the destination stream with one transferId and the
\* amount, the two movements exist, and the balances it returns are the
\* balances it loaded lowered and raised by the amount.
SuccessfulTransferAppends ==
  \A c \in Clients :
    LET u == useCase[c] IN
    (u.pc = "done" /\ u.op = "transfer" /\ u.result.status = "ok") =>
      /\ TransferRecorded(u, events, readMovements)
      /\ u.result.balance = u.loaded.state.balance.cents - u.amountCents
      /\ u.result.toBalance = u.loadedTo.state.balance.cents + u.amountCents

\* C15, amended: a TransferUseCase.execute for which beginCommand reported
\* isDuplicate = false and that returns normally has, in the one step in
\* which its transaction commits, added exactly one TransferSent to the
\* source stream and one TransferReceived to the destination stream, both
\* with its transferId and amount and at the versions after the ones it
\* loaded, lowered the source's read_accounts balance and raised the
\* destination's by the amount, and added one transfer_out and one
\* transfer_in movement; when it returns the log and the read model hold
\* exactly these, and the balances it returns are the loaded balances
\* lowered and raised by the amount.
TransferAppendsBothHalves ==
  [][\A c \in Clients :
       LET u == useCase[c]
           from == u.accountId
           to == u.toAccountId
       IN
       (u.op = "transfer" /\ u.pc = "await") =>
         /\ (tx[c].pc = "commit" /\ tx'[c].pc = "done") =>
              /\ ~u.isDuplicate
              /\ events' \ events =
                   TransferEvents(events', from, "TransferSent", u.transferId,
                                  u.amountCents)
                   \cup TransferEvents(events', to, "TransferReceived",
                                       u.transferId, u.amountCents)
              /\ \A e \in events' \ events :
                   e.version = (IF e.aggregateId = from THEN u.loaded.version
                                ELSE u.loadedTo.version) + 1
              /\ TransferRecorded(u, events', readMovements')
              /\ ~TransferRecorded(u, events, readMovements)
              /\ readAccounts'[from].balanceCents =
                   readAccounts[from].balanceCents - u.amountCents
              /\ readAccounts'[to].balanceCents =
                   readAccounts[to].balanceCents + u.amountCents
         /\ (useCase'[c].pc = "done" /\ useCase'[c].result.status = "ok") =>
              /\ ~u.isDuplicate
              /\ TransferRecorded(u, events', readMovements')
              /\ useCase'[c].result.balance =
                   u.loaded.state.balance.cents - u.amountCents
              /\ useCase'[c].result.toBalance =
                   u.loadedTo.state.balance.cents + u.amountCents
    ]_vars

\* C15, witness: a transfer of 1 cent from A to B has returned, the events
\* and movements of it are there and B's balance in read_accounts is 1 cent.
TransferAppendsBothHalvesWitness ==
  \E c \in Clients :
    LET u == useCase[c] IN
    /\ u.pc = "done"
    /\ u.op = "transfer"
    /\ ~u.isDuplicate
    /\ u.result.status = "ok"
    /\ u.accountId = "A"
    /\ TransferRecorded(u, events, readMovements)
    /\ readAccounts["B"].balanceCents = Cents(1)
    /\ u.result.toBalance = Cents(1)

\* What C16 requires of the step in which the transfer execution of client
\* c, having loaded both accounts, goes on: with different currencies it
\* ends with CurrencyMismatchError, with one currency, a source without
\* allowNegative and balance < amount it ends with InsufficientBalanceError,
\* and in both cases the step starts no transaction and changes no table.
TransferValidated(c) ==
  LET v == useCase'[c]
      from == v.loaded.state
      to == v.loadedTo.state
      mismatch == from.currency # to.currency
      insufficient == /\ ~mismatch
                      /\ ~from.allowNegative
                      /\ from.balance.cents < v.amountCents
  IN
  (mismatch \/ insufficient) =>
    /\ v.pc = "done"
    /\ v.result.status = (IF mismatch THEN "CurrencyMismatchError"
                          ELSE "InsufficientBalanceError")
    /\ UNCHANGED <<events, readAccounts, readMovements, tx, nextSeq>>

\* The transfer execution of client c has loaded both accounts and goes on.
TransferDecides(c) ==
  /\ useCase[c].op = "transfer"
  /\ useCase[c].pc = "loadTo"
  /\ useCase'[c].pc # "loadTo"
  /\ ~useCase'[c].loaded.empty /\ useCase'[c].loaded.error = "none"
  /\ ~useCase'[c].loadedTo.empty /\ useCase'[c].loadedTo.error = "none"

\* C16 as stated: whenever the source and destination accounts have
\* different currencies TransferUseCase.execute fails with
\* CurrencyMismatchError, and whenever the source has allowNegative = false
\* and balance < amount it fails with InsufficientBalanceError; no event is
\* appended and no projection row changes.
TransferValidation ==
  [][\A c \in Clients : TransferDecides(c) => TransferValidated(c)]_vars

\* C16, amended: the same for the executions for which beginCommand
\* reported isDuplicate = false.
TransferValidationOfNewCommand ==
  [][\A c \in Clients :
       (TransferDecides(c) /\ ~useCase[c].isDuplicate) => TransferValidated(c)]_vars

\* C16, witness: a transfer from a source that holds the amount to an
\* account of another currency has ended with CurrencyMismatchError, and
\* nothing of it is in the log or in read_movements.
TransferValidationWitness ==
  \E c \in Clients :
    LET u == useCase[c] IN
    /\ u.pc = "done"
    /\ u.op = "transfer"
    /\ ~u.isDuplicate
    /\ u.result.status = "CurrencyMismatchError"
    /\ u.loaded.state.balance.cents >= u.amountCents
    /\ \A e \in events : e.payload.transferId # u.transferId
    /\ \A m \in readMovements : m.transferId # u.transferId

\* The events of a stream in a set of rows, and what C17 says of them: n
\* events have the n versions 0 .. n-1, and the stream version is n-1.
StreamOf(rows, s) == {e \in rows : e.aggregateId = s}

VersionsContiguous(rows, s) ==
  LET n == Cardinality(StreamOf(rows, s)) IN
  /\ {e.version : e \in StreamOf(rows, s)} = 0 .. n - 1
  /\ \A e1 \in StreamOf(rows, s) : \A e2 \in StreamOf(rows, s) :
       e1.version = e2.version => e1 = e2
  /\ StreamVersion(rows, s) = n - 1

\* C17: in every committed state, for every stream the versions of its n
\* events are exactly 0 .. n-1 with no gap and no duplicate, and
\* getStreamVersion returns n-1, which is -1 for a stream without events;
\* a step that commits k events to a stream raises getStreamVersion of it
\* by exactly k, and no step lowers it.
StreamVersionInvariant ==
  [][\A s \in Streams :
       /\ VersionsContiguous(events, s)
       /\ VersionsContiguous(events', s)
       /\ StreamOf(events, s) \subseteq StreamOf(events', s)
       /\ StreamVersion(events', s) =
            StreamVersion(events, s)
              + Cardinality(StreamOf(events', s) \ StreamOf(events, s))
       /\ StreamOf(events, s) = {} => StreamVersion(events, s) = 0 - 1
    ]_vars

\* C17, witness: after two calls stream A holds two events, at versions 0
\* and 1, while stream B is empty at version -1.
StreamVersionInvariantWitness ==
  /\ Cardinality(StreamOf(events, "A")) = 2
  /\ getStreamVersion("A") = 1
  /\ StreamOf(events, "B") = {}
  /\ getStreamVersion("B") = 0 - 1
  /\ calls = 2
  /\ \A c \in Clients : ~Active(tx[c])
  /\ \E c \in Clients : tx[c].pc = "done" /\ tx[c].result.status = "ok"

\* All rows of the events table that exist, committed or not.
AllRows == events \cup UNION {tx[c].wEvents : c \in Clients}

\* Distinct event_seq, and within a stream event_seq rising with version.
SequenceOrdered(rows) ==
  \A e1 \in rows : \A e2 \in rows :
    /\ e1.eventSeq = e2.eventSeq => e1 = e2
    /\ (e1.aggregateId = e2.aggregateId /\ e1.version < e2.version) =>
         e1.eventSeq < e2.eventSeq

\* C18: in every committed state every event has a distinct event_seq and
\* so is one row of one stream, and within a stream event_seq is strictly
\* increasing with version; the event_seq an INSERT gives a new event is
\* greater than the event_seq of every event in the log at that moment,
\* committed or not.
GlobalSequenceInvariant ==
  [][/\ SequenceOrdered(events)
     /\ SequenceOrdered(events')
     /\ \A c \in Clients :
          \A r \in tx'[c].wEvents \ tx[c].wEvents :
            /\ \A e \in AllRows : e.eventSeq < r.eventSeq
            /\ r.aggregateId \in Streams
    ]_vars

\* C18, witness: stream A holds two events, and a transaction that is still
\* open has inserted a row with a greater event_seq than both.
GlobalSequenceInvariantWitness ==
  /\ Cardinality(StreamOf(events, "A")) = 2
  /\ \E c \in Clients :
       /\ tx[c].pc = "commit"
       /\ \E r \in tx[c].wEvents : \A e \in events : e.eventSeq < r.eventSeq

\* C19 as stated: the global sequence reflects commit order.  If the
\* transaction of e1 committed before the transaction of e2, that is, e1 is
\* in the committed log when a COMMIT adds e2, then
\* event_seq(e1) < event_seq(e2).
SequenceReflectsCommitOrder ==
  [][\A e2 \in events' \ events : \A e1 \in events :
       e1.eventSeq < e2.eventSeq]_vars

\* C20 as stated: Account.fromEvents fails for every event sequence whose
\* first event is not the AccountCreated event, the empty sequence and the
\* sequences with AccountCreated at a later position included; it succeeds
\* only when the first event is the creation event.
FromEventsNeedsCreatedFirst ==
  lastCommand.op = "fromEvents" =>
    LET evs == lastCommand.events
        createdFirst == Len(evs) > 0 /\ evs[1].type = "AccountCreated"
    IN
    /\ ~createdFirst => lastCommand.error # "none"
    /\ lastCommand.error = "none" => createdFirst

\* C21 as stated: once the creation event of an account is in its stream
\* the currency of the account never changes.  The state folded from a
\* stream has the currency of the stream's creation event whatever events
\* follow it, and no command method changes the currency.
CurrencyImmutable ==
  /\ (lastCommand.op = "fromEvents" /\ lastCommand.error = "none") =>
       account.currency =
         lastCommand.events[FindCreated(lastCommand.events)].currency
  /\ lastCommand.op \in {"recordIncome", "recordExpense", "recordTransferSent",
                         "recordTransferReceived"} =>
       account.currency = lastCommand.before.currency

----------------------------------------------------------------------------
(* Properties of CreateAccountUseCase (SpecCreateAccount). *)

\* The accounts that exist for an idempotency key: the streams with an
\* AccountCreated event of the key's correlationId, and the read_accounts
\* rows of these streams.
AccountEventsOf(rows, k) ==
  {e \in rows : /\ e.payload.type = "AccountCreated"
                /\ e.correlationId # 0
                /\ \E r \in RowsOf(commandDedup, UseCaseUser, k) :
                     r.correlationId = e.correlationId}

AccountRowsOf(rows, accs, k) ==
  {s \in Streams : accs[s].exists /\ \E e \in AccountEventsOf(rows, k) : e.aggregateId = s}

ExecutionInFlight(k) ==
  \E c \in Clients :
    useCase[c].pc \in {"create", "await"} /\ useCase[c].idempotencyKey = k

----------------------------------------------------------------------------
(* Archival (SpecAccount). *)

\* The result of the command method op on a given state.
CommandOn(op, state, amt) ==
  CASE op = "recordIncome" -> recordIncome(state, amt)
    [] op = "recordExpense" -> recordExpense(state, amt)
    [] op = "recordTransferSent" -> recordTransferSent(state, "t1", amt)
    [] op = "recordTransferReceived" -> recordTransferReceived(state, "t1", amt)

\* An event such as create and the command methods build: a currency of
\* three letters, a positive amount.
WellFormedEvent(ev) ==
  /\ ev.type = "AccountCreated" => Len(ev.currency) = 3
  /\ ev.type \in FinancialTypes => ev.amountCents > 0

\* C27: archival is not a guard.  On an aggregate whose isArchived is set,
\* recordIncome, recordExpense, recordTransferSent and recordTransferReceived
\* return or throw exactly as they do on the same state with isArchived
\* clear, and leave the same state but for the flag; in particular a credit
\* of a positive amount succeeds.  Folding any well-formed event into an
\* archived aggregate succeeds, and so does a fold of well-formed events that
\* holds an AccountArchived.  The projector's handler of AccountArchived
\* leaves the balance of the account's row unchanged and inserts no movement.
ArchivalIsNotAGuard ==
  LET before == lastCommand.before
      amt == lastCommand.amountCents
      evs == lastCommand.events
      ops == {"recordIncome", "recordExpense", "recordTransferSent",
              "recordTransferReceived"}
  IN
  /\ (lastCommand.op \in ops /\ before.isArchived) =>
       LET r == CommandOn(lastCommand.op, [before EXCEPT !.isArchived = FALSE], amt) IN
       /\ lastCommand.error = r.error
       /\ r.error = "none" =>
            /\ account = [r.value.state EXCEPT !.isArchived = TRUE]
            /\ evs = <<r.value.event>>
       /\ (lastCommand.op \in {"recordIncome", "recordTransferReceived"} /\ amt > 0) =>
            /\ lastCommand.error = "none"
            /\ account.balance.cents = before.balance.cents + amt
  /\ (account.exists /\ account.isArchived) =>
       /\ \A ev \in FoldPayloads :
            WellFormedEvent(ev) =>
              LET r == applyEvent(account, ev) IN
              /\ r.error = "none"
              /\ r.value.isArchived
              /\ r.value.version = account.version + 1
       /\ LET ctx == [eventSeq |-> 2, eventId |-> 2, aggregateId |-> "A"]
              accs == [s \in Streams |->
                         IF s = "A"
                         THEN AccountRow(account.currency, account.allowNegative,
                                         account.balance.cents, 1)
                         ELSE NoRow]
              p == projectAccountArchived(accs, {}, AccountArchived, ctx)
          IN /\ p.accounts["A"].balanceCents = account.balance.cents
             /\ p.accounts["A"].exists
             /\ p.movements = {}
  /\ (/\ lastCommand.op = "fromEvents"
      /\ \E i \in 1 .. Len(evs) : evs[i].type = "AccountArchived"
      /\ \E i \in 1 .. Len(evs) : evs[i].type = "AccountCreated"
      /\ \A i \in 1 .. Len(evs) : WellFormedEvent(evs[i])) =>
       /\ lastCommand.error = "none"
       /\ account.isArchived
       /\ account.version = Len(evs)

\* C27, witness: an expense has been recorded on an archived account that
\* held a balance, and the balance went down by its amount.
ArchivalIsNotAGuardWitness ==
  /\ lastCommand.op = "recordExpense"
  /\ lastCommand.before.isArchived
  /\ lastCommand.before.balance.cents > 0
  /\ lastCommand.error = "none"
  /\ account.isArchived
  /\ account.balance.cents = lastCommand.before.balance.cents - lastCommand.amountCents
  /\ lastCommand.amountCents > 0

----------------------------------------------------------------------------
(* The versions a ConcurrencyError carries (Spec). *)

\* The events the call of client c has inserted, and not yet committed, in
\* the stream of the request it is working on.
OwnInserts(t) ==
  {e \in t.wEvents : e.aggregateId = t.appends[t.ri].aggregateId}

\* A step in which the call of client c fails with a ConcurrencyError.
RaisesConcurrencyError(c) ==
  /\ Active(tx[c])
  /\ tx[c].ri > 0
  /\ tx'[c].pc = "done"
  /\ tx'[c].result.status = "ConcurrencyError"

\* C28 as stated: a ConcurrencyError raised by append or appendMultiple
\* carries the expectedVersion of the caller and, as actualVersion, the
\* committed version of the stream when the conflict is detected, which
\* differs from expectedVersion.
ConcurrencyErrorCarriesCommittedVersion ==
  [][\A c \in Clients :
       RaisesConcurrencyError(c) =>
         LET req == tx[c].appends[tx[c].ri] IN
         /\ tx'[c].result.expectedVersion = req.expectedVersion
         /\ tx'[c].result.actualVersion = getStreamVersion(req.aggregateId)
         /\ tx'[c].result.actualVersion # tx'[c].result.expectedVersion
    ]_vars

\* C28 (amended): a ConcurrencyError raised by append or appendMultiple
\* carries the expectedVersion of the request that failed and, as
\* actualVersion, the version of the stream as the call's transaction sees
\* it at the check, which differs from expectedVersion: the committed
\* version when the call has inserted nothing in that stream (always so for
\* append, and for a request of appendMultiple whose stream no earlier
\* request of the list wrote), and the committed version plus the number of
\* events the call has itself inserted in the stream otherwise.
ConcurrencyErrorCarriesSeenVersion ==
  [][\A c \in Clients :
       RaisesConcurrencyError(c) =>
         LET t == tx[c]
             req == t.appends[t.ri]
             committed == getStreamVersion(req.aggregateId)
             res == tx'[c].result
         IN
         /\ res.expectedVersion = req.expectedVersion
         /\ res.actualVersion # res.expectedVersion
         /\ res.actualVersion = getStreamVersionWithClient(t, req.aggregateId)
         /\ res.actualVersion = committed + Cardinality(OwnInserts(t))
         /\ t.kind = "append" => OwnInserts(t) = {}
         /\ (\A j \in 1 .. t.ri - 1 :
               t.appends[j].aggregateId # req.aggregateId \/ t.appends[j].events = <<>>)
              => res.actualVersion = committed
    ]_vars

\* C28, witness: a call has failed with a ConcurrencyError whose
\* actualVersion is above the committed version of every stream, the events
\* it counted having been rolled back with the call.
ConcurrencyErrorCarriesSeenVersionWitness ==
  \E c \in Clients :
    /\ tx[c].pc = "done"
    /\ tx[c].result.status = "ConcurrencyError"
    /\ tx[c].result.actualVersion = tx[c].result.expectedVersion + 1
    /\ \A s \in Streams : getStreamVersion(s) < tx[c].result.actualVersion

----------------------------------------------------------------------------
(* Balances under concurrent use cases (SpecFunded). *)

\* Execution c has returned normally from a new (not repeated) command that
\* debits account s.
CommittedDebit(c, s) ==
  /\ useCase[c].pc = "done"
  /\ useCase[c].result.status = "ok"
  /\ ~useCase[c].isDuplicate
  /\ useCase[c].op \in {"recordExpense", "transfer"}
  /\ useCase[c].accountId = s

\* C29: no overdraft under concurrent writers.  For every account created
\* without allowNegative, in every committed state that interleavings of
\* RecordIncome, RecordExpense and Transfer executions reach, the balance of
\* its read_accounts row is >= 0 and so is the balance that loadStream and
\* Account.fromEvents give for its stream, the two being equal; and two
\* executions that debit the account and decided on the same loaded version
\* never both commit.
NoOverdraft ==
  \A s \in Streams :
    (readAccounts[s].exists /\ ~readAccounts[s].allowNegative) =>
      /\ readAccounts[s].balanceCents >= 0
      /\ LET l == Loaded(s) IN
         /\ l.error = "none"
         /\ l.state.balance.cents >= 0
         /\ l.state.balance.cents = readAccounts[s].balanceCents
      /\ \A c \in Clients, d \in Clients :
           (c # d /\ CommittedDebit(c, s) /\ CommittedDebit(d, s)) =>
             useCase[c].loaded.version # useCase[d].loaded.version

\* C29, witness: of two executions that debited account A, each having
\* loaded version 1 of its stream with the balance of one cent, one has
\* committed and left the balance at 0 and the other has been refused by
\* the event store.
NoOverdraftWitness ==
  \E c \in Clients, d \in Clients :
    /\ c # d
    /\ CommittedDebit(c, "A")
    /\ useCase[d].pc = "done"
    /\ useCase[d].op \in {"recordExpense", "transfer"}
    /\ useCase[d].accountId = "A"
    /\ ~useCase[d].isDuplicate
    /\ useCase[d].loaded.version = useCase[c].loaded.version
    /\ useCase[d].loaded.state.balance.cents = Cents(1)
    /\ useCase[d].result.status \in {"ConcurrencyError", "DatabaseError"}
    /\ readAccounts["A"].balanceCents = 0
    /\ ~readAccounts["A"].allowNegative

----------------------------------------------------------------------------
(* Transfers in the log (SpecFunded). *)

\* The events of one type in rows that carry transfer id tid.
HalvesOf(rows, type, tid) ==
  {e \in rows : e.payload.type = type /\ e.payload.transferId = tid}

TransferIdsIn(rows) ==
  {e.payload.transferId : e \in {x \in rows :
     x.payload.type \in {"TransferSent", "TransferReceived"}}}

\* Every transferId in rows has one TransferSent and one TransferReceived
\* event, of the same amount and in two streams.
TransfersPaired(rows) ==
  \A tid \in TransferIdsIn(rows) :
    /\ Cardinality(HalvesOf(rows, "TransferSent", tid)) = 1
    /\ Cardinality(HalvesOf(rows, "TransferReceived", tid)) = 1
    /\ \A e \in HalvesOf(rows, "TransferSent", tid),
          f \in HalvesOf(rows, "TransferReceived", tid) :
         /\ e.payload.amountCents = f.payload.amountCents
         /\ e.aggregateId # f.aggregateId

\* The sum of the balances of the accounts, in read_accounts and as
\* Account.fromEvents folds them from the streams in rows.
TotalReadBalance(accs) ==
  accs["A"].balanceCents + accs["B"].balanceCents

FoldedBalance(rows, s) ==
  LET stream == SortByVersion({e \in rows : e.aggregateId = s})
      folded == fromEvents([i \in 1 .. Len(stream) |-> stream[i].payload])
  IN folded.value.balance.cents

TotalFoldedBalance(rows) == FoldedBalance(rows, "A") + FoldedBalance(rows, "B")

\* C30: transfer pairing and conservation.  In every committed state the
\* use cases reach, every transferId in the log has exactly one TransferSent
\* event and exactly one TransferReceived event, of the same amount (the log
\* of the initial state holds no transfer, and every step leads to such a
\* log); and the commit of a transfer leaves the sum of the two accounts'
\* balances, in read_accounts and as folded from the streams, as it was.
TransferPairingAndConservation ==
  [][/\ TransfersPaired(events')
     /\ \A c \in Clients :
          (tx[c].kind = "appendMultiple" /\ tx[c].pc = "commit" /\ tx'[c].pc = "done") =>
            /\ events' # events
            /\ TotalReadBalance(readAccounts') = TotalReadBalance(readAccounts)
            /\ TotalFoldedBalance(events') = TotalFoldedBalance(events)
            /\ TotalFoldedBalance(events') = TotalReadBalance(readAccounts')
    ]_vars

\* C30, witness: a transfer of one cent from A to B has committed: the log
\* holds its TransferSent in A and its TransferReceived in B, A holds
\* nothing and B two cents.
TransferPairingAndConservationWitness ==
  \E e \in events, f \in events :
    /\ e.payload.type = "TransferSent" /\ e.aggregateId = "A"
    /\ f.payload.type = "TransferReceived" /\ f.aggregateId = "B"
    /\ e.payload.transferId = f.payload.transferId
    /\ readAccounts["A"].balanceCents = 0
    /\ readAccounts["B"].balanceCents = Cents(2)
    /\ \A c \in Clients : ~Active(tx[c])

----------------------------------------------------------------------------
(* The read model against the aggregate (Spec). *)

\* The read_accounts row of account s holds what Account.fromEvents makes of
\* the committed stream of s.
RowAgreesWithFold(s) ==
  LET l == Loaded(s) IN
  /\ l.error = "none"
  /\ readAccounts[s].exists
  /\ readAccounts[s].balanceCents = l.state.balance.cents
  /\ readAccounts[s].currency = l.state.currency
  /\ readAccounts[s].allowNegative = l.state.allowNegative

\* C31 as stated: in every committed state reached through append and
\* appendMultiple with the projector attached, for every account whose
\* stream starts with a creation event, the balance_cents, currency and
\* allow_negative of its read_accounts row equal the values Account.fromEvents
\* gives over loadStream of the account.
ReadModelAgreesWithFold ==
  \A s \in Streams :
    LET rows == loadStream(s) IN
    (Len(rows) > 0 /\ rows[1].payload.type = "AccountCreated") =>
      RowAgreesWithFold(s)

----------------------------------------------------------------------------
(* The balance a use case returns (SpecFunded). *)

\* Execution c has returned normally from a new (not repeated) command.
Succeeded(c) ==
  /\ useCase[c].pc = "done"
  /\ useCase[c].result.status = "ok"
  /\ ~useCase[c].isDuplicate

\* The command method of execution u applied to an aggregate state.
MethodOf(u, state) ==
  CASE u.op = "recordIncome" -> recordIncome(state, u.amountCents)
    [] u.op = "recordExpense" -> recordExpense(state, u.amountCents)
    [] u.op = "transfer" -> recordTransferSent(state, u.transferId, u.amountCents)

\* C32: on success a command method produces exactly one new event and
\* folds it into the aggregate it was called on: the balance changes by the
\* signed amount of the event and the version goes up by exactly 1.  So an
\* execution that returned normally has one event of its own in the stream,
\* at the version after the loaded one, and the balance it returned is the
\* loaded balance changed by the signed amount; while no other writer has
\* appended to the stream since, that is the balance Account.fromEvents
\* gives over loadStream of the account (for a transfer, of each account).
ReturnedBalanceIsFoldedBalance ==
  \A c \in Clients :
    Succeeded(c) =>
      LET u == useCase[c]
          r == MethodOf(u, u.loaded.state)
          own == EventOf(u.correlationId, u.accountId)
      IN
      /\ r.error = "none"
      /\ r.value.state.balance.cents
           = u.loaded.state.balance.cents + SignedAmount(r.value.event)
      /\ r.value.state.version = u.loaded.state.version + 1
      /\ u.result.balance = r.value.state.balance.cents
      /\ Cardinality(own) = 1
      /\ \A e \in own : e.payload = r.value.event /\ e.version = u.loaded.version + 1
      /\ getStreamVersion(u.accountId) = u.loaded.version + 1 =>
           u.result.balance = Loaded(u.accountId).state.balance.cents
      /\ u.op = "transfer" =>
           /\ u.result.toBalance = u.loadedTo.state.balance.cents + u.amountCents
           /\ Cardinality(EventOf(u.correlationId, u.toAccountId)) = 1
           /\ getStreamVersion(u.toAccountId) = u.loadedTo.version + 1 =>
                u.result.toBalance = Loaded(u.toAccountId).state.balance.cents

\* C32, witness: an expense of one cent on the account that held one cent
\* has returned the balance 0, and a transfer has returned the balances of
\* both of its accounts, with no later event in the streams.
ReturnedBalanceIsFoldedBalanceWitness ==
  \E c \in Clients, d \in Clients :
    /\ Succeeded(c) /\ Succeeded(d)
    /\ useCase[c].op = "transfer"
    /\ useCase[c].accountId = "B"
    /\ useCase[c].result.balance = 0
    /\ useCase[c].result.toBalance = Loaded("A").state.balance.cents
    /\ useCase[d].op = "recordExpense"
    /\ useCase[d].result.balance = useCase[d].loaded.state.balance.cents - Cents(1)
    /\ getStreamVersion("B") = useCase[c].loaded.version + 1

----------------------------------------------------------------------------
(* Aggregate version and expectedVersion (SpecFunded). *)

\* What an execution holds of stream s right after loading it: the stored
\* version of the last event is the stream's version, and the aggregate
\* folded from the n events loaded has version n, one more.
LoadedAtStreamVersion(l, s) ==
  ~l.empty =>
    /\ l.version = getStreamVersion(s)
    /\ l.error = "none"
    /\ l.state.version = Len(loadStream(s))
    /\ l.state.version = l.version + 1

\* C33: aggregate version counts folded events.  Account.fromEvents over
\* the n events of a loaded stream yields state.version = n, one more than
\* the zero-based version of the last event, while Account.create yields
\* version 0; the expectedVersion a use case passes to append or
\* appendMultiple is the stored version of the last loaded event, which is
\* the stream's version at load time.
VersionCountsFoldedEvents ==
  [][/\ \A cur \in {USD, EUR}, neg \in BOOLEAN : create(cur, neg).value.version = 0
     /\ \A c \in Clients :
          LET u == useCase[c]
              v == useCase'[c]
          IN
          /\ (u.pc = "load" /\ v.pc # "load") => LoadedAtStreamVersion(v.loaded, u.accountId)
          /\ (u.pc = "loadTo" /\ v.pc # "loadTo") =>
               LoadedAtStreamVersion(v.loadedTo, u.toAccountId)
          /\ (u.pc # "await" /\ v.pc = "await") =>
               /\ tx'[c].appends[1].expectedVersion = v.loaded.version
               /\ tx'[c].appends[1].aggregateId = v.accountId
               /\ v.op = "transfer" =>
                    /\ tx'[c].appends[2].expectedVersion = v.loadedTo.version
                    /\ tx'[c].appends[2].aggregateId = v.toAccountId
    ]_vars

\* C33, witness: an execution that loaded three events, the last stored at
\* version 2, and folded them into an aggregate of version 3 is appending
\* with expectedVersion 2.
VersionCountsFoldedEventsWitness ==
  \E c \in Clients :
    /\ useCase[c].pc = "await"
    /\ useCase[c].loaded.state.version = 3
    /\ useCase[c].loaded.version = 2
    /\ tx[c].pc = "check"
    /\ tx[c].appends[1].expectedVersion = 2

----------------------------------------------------------------------------
(* The account row after a creation event (Spec). *)

\* C34 as stated: after Projector.project has projected an AccountCreated
\* event of an account (the last event of its committed stream is a
\* creation event), a read_accounts row of the account exists with the
\* event's currency and allowNegative and with balance_cents = 0.
CreationLeavesZeroBalance ==
  \A s \in Streams :
    LET rows == loadStream(s) IN
    (Len(rows) > 0 /\ rows[Len(rows)].payload.type = "AccountCreated") =>
      /\ readAccounts[s].exists
      /\ readAccounts[s].currency = rows[Len(rows)].payload.currency
      /\ readAccounts[s].allowNegative = rows[Len(rows)].payload.allowNegative
      /\ readAccounts[s].balanceCents = 0

----------------------------------------------------------------------------
(* Replaying with timestamps and movement ids (SpecReplay). *)

\* The rebuild handed the projector the contexts the appends handed it.
SameContexts ==
  /\ Len(written.handed) = Len(written.log)
  /\ \A i \in 1 .. Len(written.log) : written.handed[i] = OccurredAtOfRow(written.log[i])

\* C35 as stated: Projector.project is deterministic: applied to the same
\* events and contexts from the same (empty) read model, as the appends and
\* a rebuild of their log apply it, it produces the same read_accounts and
\* read_movements rows.
ProjectIsDeterministic ==
  (replayedModel.done /\ SameContexts) => replayedModel.model = written.model

\* C36 as stated: for every stored event the occurredAt handed to the
\* projector at write time equals the occurred_at persisted on the event
\* row, for AccountCreated and AccountArchived events as for financial
\* ones, so that a rebuild reproduces the updated_at of read_accounts.
HandedOccurredAtIsPersisted ==
  /\ \A i \in 1 .. Len(written.handed) :
       written.handed[i] = written.log[i].occurredAt
  /\ (replayedModel.done /\ Len(written.handed) = Len(written.log)) =>
       replayedModel.model.updatedAt = written.model.updatedAt

----------------------------------------------------------------------------
(* Termination of the calls of the event store (SpecLive). *)

\* A call that has started returns: with a commit, or with a rollback and
\* an error.
EveryCallTerminates ==
  \A c \in Clients : Active(tx[c]) ~> ~Active(tx[c])

\* The key c's INSERT takes is held by no committed row when c commits: of
\* the calls that write at the same version of a stream at most one commits.
CommitsAlone(c) ==
  \A e \in tx[c].wEvents : ~HoldsKey(events, e.aggregateId, e.version)

\* The step in which c's call returns.
Returns(c) == Active(tx[c]) /\ tx'[c].pc = "done"

\* C37 as stated: every append and appendMultiple call terminates with a
\* commit or a rollback under any interleaving, two transfers over the same
\* two streams in opposite order included; of the calls that write at the
\* same versions at most one commits, and a call that loses fails with
\* ConcurrencyError.
CallsTerminateAndLosersGetConcurrencyError ==
  /\ EveryCallTerminates
  /\ [][\A c \in Clients :
          Returns(c) =>
            IF tx'[c].result.status = "ok" THEN CommitsAlone(c)
            ELSE tx'[c].result.status = "ConcurrencyError"]_vars

\* The calls that return with an error without being told ConcurrencyError:
\* the victim of a deadlock (SQLSTATE 40P01), and the call whose INSERT met
\* the key of a writer that committed first (SQLSTATE 25P02 out of the
\* handler of 23505).
ReturnsOrderly ==
  [][\A c \in Clients :
       Returns(c) =>
         IF tx'[c].result.status = "ok" THEN CommitsAlone(c)
         ELSE \/ tx'[c].result.status = "ConcurrencyError"
              \/ /\ tx'[c].result.status = "DatabaseError"
                 /\ tx'[c].result.code \in {"40P01", "25P02"}]_vars

----------------------------------------------------------------------------
(* A transfer from an account to itself (SpecFunded). *)

\* execute has called appendMultiple for a transfer whose source and
\* destination are one account; the step is one of that call.
SelfTransferStep(c) ==
  /\ useCase[c].op = "transfer"
  /\ useCase[c].accountId = useCase[c].toAccountId
  /\ useCase[c].pc = "await"
  /\ Active(tx[c])
  /\ tx'[c] # tx[c]

\* C38 as stated: a transfer whose source and destination are the same
\* account never commits: both requests of its appendMultiple carry the
\* same expectedVersion for one stream, so the second append fails with
\* ConcurrencyError and the transaction rolls back, leaving the stream, the
\* balance and the movements unchanged.
SelfTransferFailsAtSecondAppend ==
  [][\A c \in Clients :
       SelfTransferStep(c) =>
         LET t == tx[c] IN
         /\ t.appends[1].aggregateId = t.appends[2].aggregateId
         /\ t.appends[1].expectedVersion = t.appends[2].expectedVersion
         /\ tx'[c].pc # "commit"
         /\ tx'[c].pc = "done" =>
              /\ t.pc = "check" /\ t.ri = 2
              /\ tx'[c].result.status = "ConcurrencyError"
              /\ events' = events
              /\ readAccounts' = readAccounts
              /\ readMovements' = readMovements]_vars

\* C38 (amended): a transfer whose source and destination are the same
\* account never commits.  execute loads the stream twice, so the
\* expectedVersion of the second request is that of the first or, when
\* another call committed between the two loads, a later one.  The call
\* never reaches COMMIT: it fails at the first request (ConcurrencyError
\* from the version check, or the database error of an INSERT that lost
\* to a concurrent writer), or it reaches the version check of the second
\* request with both requests at one expectedVersion, and that check sees
\* the event of the first and fails with ConcurrencyError.  The step in
\* which the call returns leaves the log, the balances and the movements
\* as they were.
SelfTransferNeverCommits ==
  [][\A c \in Clients :
       SelfTransferStep(c) =>
         LET t == tx[c] IN
         /\ t.appends[1].aggregateId = t.appends[2].aggregateId
         /\ t.appends[1].expectedVersion <= t.appends[2].expectedVersion
         /\ tx'[c].pc # "commit"
         /\ (t.pc = "check" /\ t.ri = 2) =>
              /\ t.appends[1].expectedVersion = t.appends[2].expectedVersion
              /\ tx'[c].pc = "done"
              /\ tx'[c].result = ConcurrencyError(t.appends[2].expectedVersion,
                                                 t.appends[2].expectedVersion + 1)
         /\ tx'[c].pc = "done" =>
              /\ t.ri \in {1, 2}
              /\ tx'[c].result.status \in {"ConcurrencyError", "DatabaseError"}
              /\ t.ri = 2 => tx'[c].result.status = "ConcurrencyError"
              /\ events' = events
              /\ readAccounts' = readAccounts
              /\ readMovements' = readMovements]_vars

\* C38, witness: execute of a transfer from A to A has let the
\* ConcurrencyError of the second version check through, and stream A holds
\* no transfer event.
SelfTransferNeverCommitsWitness ==
  \E c \in Clients :
    /\ useCase[c].op = "transfer"
    /\ useCase[c].accountId = useCase[c].toAccountId
    /\ useCase[c].pc = "done"
    /\ useCase[c].result.status = "ConcurrencyError"
    /\ tx[c].pc = "done"
    /\ tx[c].result.actualVersion = tx[c].result.expectedVersion + 1
    /\ \A e \in events : e.payload.type \notin {"TransferSent", "TransferReceived"}

----------------------------------------------------------------------------
(* Requests without events (Spec). *)

\* The request whose version check or INSERT is next has events.
AtRequestWithEvents(t) ==
  (Active(t) /\ t.ri > 0) => Len(t.appends[t.ri].events) > 0

\* C39: append with an empty event list, appendMultiple with an empty
\* request list, and a request of appendMultiple whose event list is empty
\* return an empty result without a check of expectedVersion.  A call that
\* has no event to write returns normally in one step, whatever its
\* expectedVersion and the version of its stream, and leaves the log and
\* the read models unchanged; the version check and the INSERT are only
\* ever at a request that has events, so a ConcurrencyError carries the
\* expectedVersion of such a request.
EmptyAppendSkipsVersionCheck ==
  [][\A c \in Clients :
       LET t == tx[c] IN
       /\ AtRequestWithEvents(tx'[c])
       /\ (Active(t) /\ tx'[c] # t /\ TotalEvents(t.appends) = 0) =>
            /\ tx'[c] = Returned(Ok)
            /\ events' = events
            /\ readAccounts' = readAccounts
            /\ readMovements' = readMovements
       /\ (Active(t) /\ tx'[c].result.status = "ConcurrencyError") =>
            /\ Len(t.appends[t.ri].events) > 0
            /\ tx'[c].result.expectedVersion = t.appends[t.ri].expectedVersion]_vars

\* C39, witness: a call of append with no event has returned normally and
\* the log is still empty, while a call of appendMultiple is past a first
\* request that has no event and whose expectedVersion (0) is not the
\* version of its stream (-1): it has inserted the event of its second
\* request.
EmptyAppendSkipsVersionCheckWitness ==
  \E c, d \in Clients :
    /\ c # d
    /\ tx[d] = Returned(Ok)
    /\ events = {}
    /\ tx[c].pc = "commit"
    /\ tx[c].appends[1].events = <<>>
    /\ tx[c].appends[1].expectedVersion # getStreamVersion(tx[c].appends[1].aggregateId)
    /\ tx[c].wEvents # {}

----------------------------------------------------------------------------
(* read_accounts.last_version (Spec). *)

\* The event_seq of the last event of stream s among rows: the event of s
\* that was projected most recently.
LastSeq(rows, s) == Max({e.eventSeq : e \in {x \in rows : x.aggregateId = s}})

LastVersionIsLastSeq(rows, accs) ==
  \A s \in Streams : accs[s] # NoRow => accs[s].lastVersion = LastSeq(rows, s)

\* C40: in every committed state the last_version of each read_accounts
\* row is the event_seq of the most recently projected event of that
\* account, and it never decreases: no step (a commit, a rollback, a
\* rebuild) removes a row or lowers its last_version.
LastVersionFollowsEventSeq ==
  [][/\ LastVersionIsLastSeq(events', readAccounts')
     /\ \A s \in Streams :
          readAccounts[s] # NoRow =>
            /\ readAccounts'[s] # NoRow
            /\ readAccounts'[s].lastVersion >= readAccounts[s].lastVersion]_vars

\* C40, witness: an account row whose last_version is the event_seq of its
\* second event, above the event_seq of its creation event, after another
\* event_seq was used in between or before.
LastVersionFollowsEventSeqWitness ==
  \E s \in Streams :
    /\ readAccounts[s] # NoRow
    /\ \E e1, e2 \in events :
         /\ e1.aggregateId = s /\ e1.payload.type = "AccountCreated"
         /\ e2.aggregateId = s /\ e2.eventSeq > e1.eventSeq
         /\ readAccounts[s].lastVersion = e2.eventSeq
         /\ e2.eventSeq > e2.version + 1

====
